---- MODULE Spec2Model ----
(***************************************************************************)
(* Model of the wave control core of ROCdbgapi (src/src/wave.cpp).         *)
(*                                                                         *)
(* The state is the set of wave_t objects of one queue of one process,     *)
(* the process event table, the displaced stepping buffers of the process  *)
(* and the suspension state of the queue.  One action stands for one       *)
(* public entry point (amd_dbgapi_wave_stop, amd_dbgapi_wave_resume, ...)  *)
(* and runs the whole call: the scoped queue suspension with the refresh   *)
(* of every wave of the queue (wave_t::update), the second look-up of the  *)
(* wave, wave_t::set_state and the release of the suspension.              *)
(*                                                                         *)
(* What the hardware did since the queue last ran is an input of the       *)
(* suspension: for every wave either it is still running, or it has        *)
(* exited, or it is halted at some pc with some stop reason.               *)
(***************************************************************************)
EXTENDS Integers, Sequences, FiniteSets, TLC

(***************************************************************************)
(* Bounds of the model.                                                    *)
(***************************************************************************)
MaxEvents == 2
MaxBuffers == 2

(***************************************************************************)
(* Waves, addresses and instructions.                                      *)
(***************************************************************************)
Waves == {1, 2}

NoEvent == 0
NoBuffer == 0

\* Code addresses of the kernel, and the instruction found at each.
CodeAddrs == {1, 2, 3}
\* m_callbacks.park_instruction_address ()
ParkAddr == 8
\* m_callbacks.terminating_instruction_address ()
TerminateAddr == 9
\* instruction_buffer->begin () of the buffer with a given id
BufferBase == 10
InstructionSize == 1

BufferIds == 1 .. MaxBuffers
BufferAddr(b) == BufferBase + 2 * b
BufferAddrs == {BufferAddr(b) + d : b \in BufferIds, d \in {0, InstructionSize}}
Addrs == {0} \cup CodeAddrs \cup {CodeAddrs_max + InstructionSize : CodeAddrs_max \in CodeAddrs}
           \cup {ParkAddr, TerminateAddr} \cup BufferAddrs

InstructionKinds == {"alu", "branch", "endpgm", "illegal"}
NoInstruction == "none"

WaveStates == {"RUN", "SINGLE_STEP", "STOP"}
Visibilities == {"visible", "hidden_at_terminating_instruction"}
StopReasonBits == {"SINGLE_STEP", "BREAKPOINT", "MEMORY_VIOLATION"}
StopReasonNone == {}

EventKinds == {"WAVE_STOP", "WAVE_COMMAND_TERMINATED"}
\* event_t::state_t, in increasing order.
EventRank(st) ==
  CASE st = "queued" -> 0
    [] st = "reported" -> 1
    [] OTHER -> 2

ResumeModes == {"NORMAL", "SINGLE_STEP", "INVALID_MODE"}
RecognizedExceptions ==
  {"ABORT", "TRAP", "MATH_ERROR", "ILLEGAL_INSTRUCTION", "MEMORY_VIOLATION",
   "APERTURE_VIOLATION"}
AllExceptionBits == RecognizedExceptions \cup {"RESERVED"}
ExceptionNone == {}
\* The exception arguments the calls are made with: none, every single bit,
\* and two combinations, one of them with a bit that is not recognized.
ExceptionArgs ==
  {ExceptionNone} \cup {{e} : e \in AllExceptionBits}
    \cup {{"ABORT", "MEMORY_VIOLATION"}, {"TRAP", "RESERVED"}}

WaveInfoQueries ==
  {"STATE", "STOP_REASON", "PC", "EXEC_MASK", "WATCHPOINTS", "LANE_COUNT",
   "INVALID_QUERY"}

VARIABLES
  waves,                   \* wave id -> the fields of the wave_t object
  events,                  \* event id -> the event_t of the process
  buffers,                 \* buffer id -> the displaced_stepping_t
  queue_suspended,         \* queue ().is_suspended ()
  forward_progress_needed, \* process ().forward_progress_needed ()
  park_stopped_waves,      \* architecture ().park_stopped_waves ()
  agent_exceptions,        \* agent ().exceptions (), the device bits
  assert_failed,           \* names of the dbgapi_assert conditions found false
  ret                      \* the last call: entry point, arguments, result

vars ==
  <<waves, events, buffers, queue_suspended, forward_progress_needed,
    park_stopped_waves, agent_exceptions, assert_failed, ret>>

(***************************************************************************)
(* The objects.                                                            *)
(***************************************************************************)
\* The fields of a wave_t.  stop_event is a history field: the id of the
\* event raised by the transition that put the wave into STOP, NoEvent when
\* that transition raised none.  terminated is a history field: terminate ()
\* has run for the wave.
NewWave ==
  [alive |-> TRUE, state |-> "RUN", visibility |-> "visible",
   stop_reason |-> StopReasonNone, stop_requested |-> FALSE,
   is_parked |-> FALSE, parked_pc |-> 0, last_stopped_pc |-> 0,
   last_stop_event_id |-> NoEvent, displaced_stepping |-> NoBuffer,
   pc |-> 1, stop_event |-> NoEvent, terminated |-> FALSE]

\* A wave that has exited: the wave_t is destroyed, find () returns null.
ExitedWave == [NewWave EXCEPT !.alive = FALSE]

\* A slot of the displaced stepping table that holds no buffer.
FreeBuffer ==
  [refcount |-> 0, queue |-> "none", from |-> 0, is_simulated |-> FALSE,
   original |-> NoInstruction]

\* wave_t::queue (): the queue of the wave; the waves that carry no queue
\* field are all waves of one queue.
wave_queue(wr) == IF "queue" \in DOMAIN wr THEN wr.queue ELSE "queue_1"

\* The state a call works on; suspended is queue ().is_suspended () as the
\* call goes on.
World ==
  [waves |-> waves, events |-> events, buffers |-> buffers,
   agent_exceptions |-> agent_exceptions, assert_failed |-> assert_failed,
   sent |-> {}, suspended |-> queue_suspended]

\* dbgapi_assert (cond): with assertions compiled out (the default of a
\* release build) the call goes on; the failed condition is recorded.
dbgapi_assert(s, name, cond) ==
  IF cond THEN s ELSE [s EXCEPT !.assert_failed = @ \cup {name}]

(***************************************************************************)
(* Registers and instructions.                                             *)
(***************************************************************************)
\* The hardware registers and the trap temporaries of amdgpu_regnum_t that
\* the model names: the registers between first_hwreg and last_ttmp.
Hwregs == {"pc", "exec_32", "exec_64"}
Ttmps == {"ttmp4"}

\* Variant: the register cache covers the trap temporaries only.
cache_contains_ttmps_only(regnum) == regnum \in Ttmps

\* The register cache covers [first_hwreg .. last_ttmp].
cache_contains(regnum) == regnum \in Hwregs \cup Ttmps

\* The register exec_mask () reads for a wave of 32 or of 64 lanes.
exec_regnum(wr) ==
  IF "lane_count" \in DOMAIN wr /\ wr.lane_count = 32 THEN "exec_32"
  ELSE "exec_64"

\* wave_t::read_register, the place the bytes come from: the parked pc, the
\* register cache, or the global memory, which is read with the queue
\* suspended.
read_register_access(s, w, regnum) ==
  IF s.waves[w].is_parked /\ regnum = "pc" THEN s
  ELSE IF cache_contains(regnum) THEN s
  ELSE dbgapi_assert(s, "read_register_queue_suspended", s.suspended)

\* wave_t::write_register, the place the bytes go to.
write_register_access(s, w, regnum) ==
  IF s.waves[w].is_parked /\ regnum = "pc" THEN s
  ELSE IF cache_contains(regnum) THEN s
  ELSE dbgapi_assert(s, "write_register_queue_suspended", s.suspended)

\* read_register (amdgpu_regnum_t::pc): the parked pc while parked.
read_register_pc(wr) == IF wr.is_parked THEN wr.parked_pc ELSE wr.pc

\* The register cache of a wave is followed only for the waves that are
\* given one: the dirty bit of m_register_cache, whether the cache is
\* registered with the queue for the flush, and the history field lost
\* (a reset has dropped bytes that were never flushed).
has_register_cache(wr) == "dirty" \in DOMAIN wr

\* Variant: the cache is written and not registered with the queue.
register_cache_write_unregistered(wr) ==
  IF has_register_cache(wr) THEN [wr EXCEPT !.dirty = TRUE] ELSE wr

\* m_register_cache.write, which makes the cache dirty, followed by
\* m_callbacks.register_dirty_cache when the cache is dirty.
register_cache_write(wr) ==
  IF has_register_cache(wr)
  THEN [wr EXCEPT !.dirty = TRUE, !.registered = TRUE]
  ELSE wr

\* m_register_cache.reset: the cache is filled again from the context save
\* area, whatever it held.
register_cache_reset(wr) ==
  IF has_register_cache(wr)
  THEN [wr EXCEPT !.lost = @ \/ wr.dirty, !.dirty = FALSE]
  ELSE wr

\* The queue leaves the suspended state: the caches registered with it are
\* flushed to the context save area.
flush_dirty_caches(s) ==
  [s EXCEPT !.waves =
     [w \in DOMAIN s.waves |->
        IF has_register_cache(s.waves[w]) /\ s.waves[w].registered
        THEN [s.waves[w] EXCEPT !.dirty = FALSE, !.registered = FALSE]
        ELSE s.waves[w]]]

\* The state a call leaves when the queue is suspended_after the call.
queue_left(s, suspended_after) ==
  IF suspended_after THEN s ELSE flush_dirty_caches(s)

\* Variant: a write of the pc always goes to the context save record.
write_register_pc_cwsr(wr, v) == register_cache_write([wr EXCEPT !.pc = v])

\* write_register (amdgpu_regnum_t::pc, v): only the parked pc while parked.
write_register_pc(wr, v) ==
  IF wr.is_parked THEN [wr EXCEPT !.parked_pc = v]
  ELSE register_cache_write([wr EXCEPT !.pc = v])

pc(s, w) == read_register_pc(s.waves[w])

\* write_register (amdgpu_regnum_t::pc, v) for the wave w of s.
write_pc(s, w, v) ==
  [write_register_access(s, w, "pc") EXCEPT !.waves[w] = write_register_pc(@, v)]

\* The instruction bytes in global memory: the kernel's code, and the
\* immutable terminating instruction terminate () points the pc at.
CodeAt(a) ==
  CASE a = 1 -> "alu"
    [] a = 2 -> "branch"
    [] a = 3 -> "endpgm"
    [] a = TerminateAddr -> "endpgm"
    [] OTHER -> NoInstruction

\* process ().read_global_memory_partial at a: the kernel's code, or the
\* copy of the original instruction held by a displaced stepping buffer.
MemoryAt(s, a) ==
  IF \E b \in BufferIds :
       /\ s.buffers[b].refcount > 0
       /\ ~s.buffers[b].is_simulated
       /\ BufferAddr(b) = a
  THEN LET b == CHOOSE b \in BufferIds :
                  /\ s.buffers[b].refcount > 0
                  /\ ~s.buffers[b].is_simulated
                  /\ BufferAddr(b) = a
       IN s.buffers[b].original
  ELSE CodeAt(a)

\* instruction_at_pc (): absent when the memory cannot be read.
instruction_at_pc(s, w) == MemoryAt(s, pc(s, w))

\* What the architecture says of an instruction.  "branch_endpgm" stands for
\* an instruction that ends the program and that the architecture can
\* simulate; only the single-step specification places it.
is_terminating_instruction(i) == i \in {"endpgm", "branch_endpgm"}
can_simulate(i) == i \in {"branch", "branch_endpgm"}
can_execute_displaced(i) == i \in {"alu", "endpgm", "branch_endpgm"}

(***************************************************************************)
(* Parking.                                                                *)
(***************************************************************************)
park(s, w) ==
  LET s1 == dbgapi_assert(s, "park_stopped", s.waves[w].state = "STOP")
      s2 == dbgapi_assert(s1, "park_not_parked", ~s.waves[w].is_parked)
      wr == s2.waves[w]
      w1 == [wr EXCEPT !.parked_pc = read_register_pc(wr)]
      w2 == write_register_pc(w1, ParkAddr)
  IN [s2 EXCEPT !.waves[w] = [w2 EXCEPT !.is_parked = TRUE]]

unpark(s, w) ==
  LET s1 == dbgapi_assert(s, "unpark_not_stopped", s.waves[w].state # "STOP")
      s2 == dbgapi_assert(s1, "unpark_parked", s.waves[w].is_parked)
      wr == s2.waves[w]
      saved_pc == read_register_pc(wr)
      w1 == [wr EXCEPT !.is_parked = FALSE]
  IN [s2 EXCEPT !.waves[w] = write_register_pc(w1, saved_pc)]

(***************************************************************************)
(* Events.                                                                 *)
(***************************************************************************)
\* Variant: the wave does not remember the event.
raise_event_forgotten(s, w, event_kind) ==
  [s EXCEPT !.events = Append(@, [kind |-> event_kind, wave |-> w,
                                   state |-> "queued"])]

\* raise_event: both kinds raised here are stop events.
raise_event(s, w, event_kind) ==
  LET id == Len(s.events) + 1
      event == [kind |-> event_kind, wave |-> w, state |-> "queued"]
  IN [s EXCEPT !.events = Append(@, event),
               !.waves[w].last_stop_event_id = id]

\* process ().find (event_id): an event is destroyed once it is processed.
find_event(evs, id) == id \in 1 .. Len(evs) /\ evs[id].state # "processed"

\* last_stop_event (): the event exists.
has_last_stop_event(evs, wr) == find_event(evs, wr.last_stop_event_id)

\* Variant: the state of the wave_t, whatever the state of its stop event.
client_visible_state_internal(evs, wr) == wr.state

client_visible_state(evs, wr) ==
  IF wr.state # "STOP" THEN wr.state
  ELSE IF \/ ~has_last_stop_event(evs, wr)
          \/ EventRank(evs[wr.last_stop_event_id].state) >= EventRank("reported")
       THEN "STOP"
       ELSE IF "SINGLE_STEP" \in wr.stop_reason THEN "SINGLE_STEP" ELSE "RUN"

(***************************************************************************)
(* Displaced stepping buffers.                                             *)
(***************************************************************************)
\* displaced_stepping_t::retain
retain(s, b) == [s EXCEPT !.buffers[b].refcount = @ + 1]

\* displaced_stepping_t::release: the buffer is destroyed with its last user.
release(s, b) ==
  IF s.buffers[b].refcount <= 1
  THEN [s EXCEPT !.buffers[b] = FreeBuffer]
  ELSE [s EXCEPT !.buffers[b].refcount = @ - 1]

(***************************************************************************)
(* wave_t::set_state and wave_t::terminate.                                *)
(***************************************************************************)
\* os_exception_mask_t bit of one client exception (convert_one_exception).
\* A bit that is none of the six reaches dbgapi_assert_not_reached.
convert_one_exception(s, one_exception) ==
  CASE one_exception = "ABORT" -> {"queue_wave_abort"}
    [] one_exception = "TRAP" -> {"queue_wave_trap"}
    [] one_exception = "MATH_ERROR" -> {"queue_wave_math_error"}
    [] one_exception = "ILLEGAL_INSTRUCTION" -> {"queue_wave_illegal_instruction"}
    [] one_exception = "MEMORY_VIOLATION" ->
         {"queue_wave_memory_violation"}
           \cup (s.agent_exceptions \cap {"device_memory_violation"})
    [] one_exception = "APERTURE_VIOLATION" -> {"queue_wave_aperture_violation"}
    [] OTHER -> {"not_a_valid_exception"}

\* Position of each exception bit in amd_dbgapi_exceptions_t.
ExceptionBit(e) ==
  CASE e = "ABORT" -> 0
    [] e = "TRAP" -> 1
    [] e = "MATH_ERROR" -> 2
    [] e = "ILLEGAL_INSTRUCTION" -> 3
    [] e = "MEMORY_VIOLATION" -> 4
    [] e = "APERTURE_VIOLATION" -> 5
    [] OTHER -> 6

\* The loop that peels the lowest set bit off the exceptions.
RECURSIVE convert_exceptions(_, _)
convert_exceptions(s, exceptions) ==
  IF exceptions = {} THEN {}
  ELSE LET one_exception ==
             CHOOSE e \in exceptions :
               \A f \in exceptions : ExceptionBit(e) <= ExceptionBit(f)
       IN convert_one_exception(s, one_exception)
            \cup convert_exceptions(s, exceptions \ {one_exception})

\* process ().send_exceptions (os_exceptions, &queue ()): the call is
\* recorded with its ordinal among the calls made on s and its mask.
process_send_exceptions(s, os_exceptions) ==
  [s EXCEPT !.sent = @ \cup {<<Cardinality(@) + 1, os_exceptions>>}]

\* Variant: only the lowest bit of the exceptions is converted.
set_state_send_exceptions_lowest(s, w, exceptions) ==
  IF exceptions = ExceptionNone THEN s
  ELSE LET one_exception ==
             CHOOSE e \in exceptions :
               \A f \in exceptions : ExceptionBit(e) <= ExceptionBit(f)
       IN process_send_exceptions(s, convert_one_exception(s, one_exception))

\* Lines 545-587: translate the exceptions and send them to the queue.
set_state_send_exceptions(s, w, exceptions) ==
  IF exceptions = ExceptionNone THEN s
  ELSE LET os_exceptions == convert_exceptions(s, exceptions)
           s1 == dbgapi_assert(s, "valid_exception",
                               "not_a_valid_exception" \notin os_exceptions)
       IN process_send_exceptions(s1, os_exceptions)

\* Variant: the other waves of the agent are not looked at.
set_state_clear_memory_violation_unchecked(s, w, state) ==
  IF "device_memory_violation" \in s.agent_exceptions /\ state # "STOP"
  THEN [s EXCEPT !.agent_exceptions = @ \ {"device_memory_violation"}]
  ELSE s

\* Lines 589-608: clear the agent's device memory violation when no wave
\* of the agent is stopped with a memory violation any more.
set_state_clear_memory_violation(s, w, state) ==
  IF /\ "device_memory_violation" \in s.agent_exceptions
     /\ state # "STOP"
     /\ ~\E x \in Waves :
           /\ s.waves[x].alive
           /\ s.waves[x].state = "STOP"
           /\ "MEMORY_VIOLATION" \in s.waves[x].stop_reason
  THEN [s EXCEPT !.agent_exceptions = @ \ {"device_memory_violation"}]
  ELSE s

\* Variant: a wave is parked when it stops and is not unparked.
set_state_park_only(s, w, state, parks) ==
  IF parks /\ state = "STOP" THEN park(s, w) ELSE s

\* Lines 480-486.
set_state_park(s, w, state, parks) ==
  IF ~parks THEN s
  ELSE IF state = "STOP" THEN park(s, w) ELSE unpark(s, w)

\* Variant: leaving STOP keeps the stop reason and the last stopped pc.
set_state_transition_keep(s, w, state, prev_state) ==
  IF state # "STOP"
  THEN LET s1 == dbgapi_assert(s, "resume_stopped", prev_state = "STOP")
       IN [s1 EXCEPT !.waves[w].stop_event = NoEvent]
  ELSE IF prev_state # "STOP"
       THEN LET s1 == [s EXCEPT !.waves[w].stop_reason = StopReasonNone]
                s2 == dbgapi_assert(s1, "stop_visible",
                                    s1.waves[w].visibility = "visible")
                s3 == raise_event(s2, w,
                                  IF prev_state = "SINGLE_STEP"
                                  THEN "WAVE_COMMAND_TERMINATED"
                                  ELSE "WAVE_STOP")
            IN [s3 EXCEPT !.waves[w].stop_event = Len(s3.events)]
       ELSE s

\* Variant: a stop on request always raises WAVE_STOP.
set_state_transition_wave_stop(s, w, state, prev_state) ==
  IF state # "STOP"
  THEN LET s1 == dbgapi_assert(s, "resume_stopped", prev_state = "STOP")
       IN [s1 EXCEPT !.waves[w].last_stopped_pc = pc(s1, w),
                     !.waves[w].stop_reason = StopReasonNone,
                     !.waves[w].stop_event = NoEvent]
  ELSE IF prev_state # "STOP"
       THEN LET s1 == [s EXCEPT !.waves[w].stop_reason = StopReasonNone]
                s2 == dbgapi_assert(s1, "stop_visible",
                                    s1.waves[w].visibility = "visible")
                s3 == raise_event(s2, w, "WAVE_STOP")
            IN [s3 EXCEPT !.waves[w].stop_event = Len(s3.events)]
       ELSE s

\* Lines 488-515: leaving STOP, or entering it on request.
set_state_transition(s, w, state, prev_state) ==
  IF state # "STOP"
  THEN LET s1 == dbgapi_assert(s, "resume_stopped", prev_state = "STOP")
       IN [s1 EXCEPT !.waves[w].last_stopped_pc = pc(s1, w),
                     !.waves[w].stop_reason = StopReasonNone,
                     !.waves[w].stop_event = NoEvent]
  ELSE IF prev_state # "STOP"
       THEN LET s1 == [s EXCEPT !.waves[w].stop_reason = StopReasonNone]
                s2 == dbgapi_assert(s1, "stop_visible",
                                    s1.waves[w].visibility = "visible")
                s3 == raise_event(s2, w,
                                  IF prev_state = "SINGLE_STEP"
                                  THEN "WAVE_COMMAND_TERMINATED"
                                  ELSE "WAVE_STOP")
            IN [s3 EXCEPT !.waves[w].stop_event = Len(s3.events)]
       ELSE s

\* Variant: the simulated step raises no event.
set_state_simulate_no_event(s, w, state, exceptions, instruction, parks, sim) ==
  LET wr == s.waves[w]
      ds == wr.displaced_stepping
      simulated ==
        /\ state = "SINGLE_STEP"
        /\ exceptions = ExceptionNone
        /\ IF ds # NoBuffer
           THEN s.buffers[ds].is_simulated /\ sim.ok
           ELSE /\ instruction # NoInstruction
                /\ can_simulate(instruction)
                /\ sim.ok
  IN IF ~simulated THEN s
     ELSE LET w1 == write_register_pc(wr, sim.pc)
              s1 == [s EXCEPT !.waves[w] =
                       [w1 EXCEPT !.state = "STOP",
                                  !.stop_reason = {"SINGLE_STEP"}]]
          IN IF parks THEN park(s1, w) ELSE s1

\* Lines 517-543: simulate the instruction.  sim is what the architecture
\* does: whether simulate () returns true, and the pc it leaves the wave at;
\* a simulated wave is halted with the single-step stop reason.
set_state_simulate(s, w, state, exceptions, instruction, parks, sim) ==
  LET wr == s.waves[w]
      ds == wr.displaced_stepping
      simulated ==
        /\ state = "SINGLE_STEP"
        /\ exceptions = ExceptionNone
        /\ IF ds # NoBuffer
           THEN s.buffers[ds].is_simulated /\ sim.ok
           ELSE /\ instruction # NoInstruction
                /\ can_simulate(instruction)
                /\ sim.ok
  IN IF ~simulated THEN s
     ELSE LET w1 == write_register_pc(wr, sim.pc)
              s1 == [s EXCEPT !.waves[w] =
                       [w1 EXCEPT !.state = "STOP",
                                  !.stop_reason = {"SINGLE_STEP"}]]
              s2 == IF parks THEN park(s1, w) ELSE s1
              s3 == raise_event(s2, w, "WAVE_STOP")
          IN [s3 EXCEPT !.waves[w].stop_event = Len(s3.events)]

\* architecture.wave_set_state: the state is written into the status and
\* mode registers of the wave, which the register cache holds.
wave_set_state(wr) == register_cache_write(wr)

RECURSIVE set_state(_, _, _, _, _, _)

\* Variant: the wave is not hidden.
terminate_visible(s, w, parks, sim) ==
  LET ds == s.waves[w].displaced_stepping
      s1 == IF ds # NoBuffer
            THEN [release(s, ds) EXCEPT !.waves[w].displaced_stepping = NoBuffer]
            ELSE s
      s2 == write_pc(s1, w, TerminateAddr)
      s3 == [s2 EXCEPT !.waves[w].terminated = TRUE]
  IN set_state(s3, w, "RUN", ExceptionNone, parks, sim)

\* Variant: the pc is left where the wave stopped.
terminate_keep_pc(s, w, parks, sim) ==
  LET ds == s.waves[w].displaced_stepping
      s1 == IF ds # NoBuffer
            THEN [release(s, ds) EXCEPT !.waves[w].displaced_stepping = NoBuffer]
            ELSE s
      s3 == [s1 EXCEPT !.waves[w].visibility =
                          "hidden_at_terminating_instruction",
                       !.waves[w].terminated = TRUE]
  IN set_state(s3, w, "RUN", ExceptionNone, parks, sim)

\* Variant: the displaced stepping buffer is kept.
terminate_keep_displaced(s, w, parks, sim) ==
  LET s2 == write_pc(s, w, TerminateAddr)
      s3 == [s2 EXCEPT !.waves[w].visibility =
                          "hidden_at_terminating_instruction",
                       !.waves[w].terminated = TRUE]
  IN set_state(s3, w, "RUN", ExceptionNone, parks, sim)

\* Variant: a request to stop is recorded and never taken back.
set_state_request_kept(s, w, state) ==
  IF state = "STOP" THEN [s EXCEPT !.waves[w].stop_requested = TRUE] ELSE s

\* m_stop_requested = state == AMD_DBGAPI_WAVE_STATE_STOP
set_state_request(s, w, state) ==
  [s EXCEPT !.waves[w].stop_requested = (state = "STOP")]

\* Variant: terminate raises the event of the command itself, and so does
\* its caller.
terminate_raising(s, w, parks, sim) ==
  LET ds == s.waves[w].displaced_stepping
      s1 == IF ds # NoBuffer
            THEN [release(s, ds) EXCEPT !.waves[w].displaced_stepping = NoBuffer]
            ELSE s
      s2 == write_pc(s1, w, TerminateAddr)
      s3 == [s2 EXCEPT !.waves[w].visibility =
                          "hidden_at_terminating_instruction",
                       !.waves[w].terminated = TRUE]
  IN raise_event(set_state(s3, w, "RUN", ExceptionNone, parks, sim), w,
                 "WAVE_COMMAND_TERMINATED")

\* wave_t::terminate
terminate(s, w, parks, sim) ==
  LET ds == s.waves[w].displaced_stepping
      s1 == IF ds # NoBuffer
            THEN [release(s, ds) EXCEPT !.waves[w].displaced_stepping = NoBuffer]
            ELSE s
      s2 == write_pc(s1, w, TerminateAddr)
      s3 == [s2 EXCEPT !.waves[w].visibility =
                          "hidden_at_terminating_instruction",
                       !.waves[w].terminated = TRUE]
  IN set_state(s3, w, "RUN", ExceptionNone, parks, sim)

\* wave_t::set_state
set_state(s, w, state, exceptions, parks, sim) ==
  LET s0 == dbgapi_assert(s, "exception_requires_resume",
                          exceptions = ExceptionNone \/ state # "STOP")
      prev_state == s.waves[w].state
  IN IF state = prev_state THEN s0
     ELSE
       LET ds == s0.waves[w].displaced_stepping
           s1 == dbgapi_assert(s0, "displaced_stepping_not_run",
                               ds = NoBuffer \/ state # "RUN")
           s2 == set_state_request(s1, w, state)
           instruction ==
             IF state = "SINGLE_STEP" THEN instruction_at_pc(s2, w)
             ELSE NoInstruction
           terminating ==
             IF ds # NoBuffer
             THEN is_terminating_instruction(s2.buffers[ds].original)
             ELSE /\ instruction # NoInstruction
                  /\ is_terminating_instruction(instruction)
       IN IF state = "SINGLE_STEP" /\ exceptions = ExceptionNone /\ terminating
          THEN raise_event(terminate(s2, w, parks, sim), w,
                           "WAVE_COMMAND_TERMINATED")
          ELSE
            LET s3 == [s2 EXCEPT !.waves[w] =
                         [wave_set_state(@) EXCEPT !.state = state]]
                s4 == set_state_park(s3, w, state, parks)
                s5 == set_state_transition(s4, w, state, prev_state)
                s6 == set_state_simulate(s5, w, state, exceptions,
                                         instruction, parks, sim)
                s7 == set_state_send_exceptions(s6, w, exceptions)
            IN set_state_clear_memory_violation(s7, w, state)

(***************************************************************************)
(* wave_t::update and the refresh of the queue's waves on suspension.      *)
(***************************************************************************)
\* What the hardware may have done with a wave since the queue last ran,
\* as found in its context save record: architecture.wave_get_state and the
\* saved pc.  A halted wave stays as it is; a wave running normally may have
\* executed its terminating instruction and left; a wave parked at the
\* terminating instruction can only leave.
StopReasonsOf(wr) ==
  IF wr.state = "SINGLE_STEP"
  THEN {{"SINGLE_STEP"}, {"MEMORY_VIOLATION"}}
  ELSE {StopReasonNone, {"BREAKPOINT"}, {"MEMORY_VIOLATION"}}

StopAddrsOf(s, wr) ==
  IF wr.displaced_stepping # NoBuffer
       /\ ~s.buffers[wr.displaced_stepping].is_simulated
  THEN {BufferAddr(wr.displaced_stepping),
        BufferAddr(wr.displaced_stepping) + InstructionSize}
  ELSE CodeAddrs

Stay == [kind |-> "stay", reason |-> StopReasonNone, pc |-> 0]

HardwareOutcomes(s, w) ==
  LET wr == s.waves[w]
  IN IF ~wr.alive \/ wr.state = "STOP" THEN {Stay}
     ELSE {Stay}
          \cup (IF wr.state = "RUN"
                THEN {[kind |-> "exit", reason |-> StopReasonNone, pc |-> 0]}
                ELSE {})
          \cup (IF wr.visibility = "visible"
                THEN {[kind |-> "stop", reason |-> r, pc |-> a] :
                        r \in StopReasonsOf(wr), a \in StopAddrsOf(s, wr)}
                ELSE {})

\* The first update of a wave is followed only for the waves that carry
\* the fields it sets: cwsr_record (m_cwsr_record is set), group_ids and
\* wave_in_group, and ttmps_setup, the process flag ttmps_setup_enabled.
has_cwsr_record(wr) == "cwsr_record" \in DOMAIN wr

\* Variant: every update is taken for the first.
first_update_always(wr) == has_cwsr_record(wr)

\* first_update: m_cwsr_record was not set before this update.
first_update(wr) == has_cwsr_record(wr) /\ ~wr.cwsr_record

\* Lines 403-418: the wave id is written into its register, and the group
\* ids and the position in the group are read from the ttmps, which hold
\* what the hardware put there or the zeroes written at lines 358-368.
update_first(wr, outcome) ==
  [register_cache_write(wr) EXCEPT
     !.cwsr_record = TRUE,
     !.group_ids = IF wr.ttmps_setup THEN outcome.group_ids ELSE 0,
     !.wave_in_group = IF wr.ttmps_setup THEN outcome.wave_in_group ELSE 0]

\* Variant: the event is raised for hidden waves too.
update_raises_event_hidden(wr) == wr.stop_reason # StopReasonNone

\* Lines 398-400: the wave that has just stopped gets a WAVE_STOP event.
update_raises_event(wr) ==
  wr.visibility = "visible" /\ wr.stop_reason # StopReasonNone

\* wave_t::update.
update(s0, w, outcome, parks) ==
  LET s == dbgapi_assert(s0, "update_queue_suspended", s0.suspended)
      prev_state == s.waves[w].state
      wr == IF prev_state # "STOP" THEN register_cache_reset(s.waves[w])
            ELSE s.waves[w]
      w1 == IF prev_state # "STOP" /\ outcome.kind = "stop"
            THEN [wr EXCEPT !.state = "STOP", !.stop_reason = outcome.reason,
                            !.pc = outcome.pc]
            ELSE IF prev_state # "STOP"
                 THEN [wr EXCEPT !.stop_reason = StopReasonNone]
                 ELSE wr
      s1 == [s EXCEPT !.waves[w] = w1]
      s4 == IF prev_state # "STOP" /\ w1.state = "STOP"
            THEN LET s2 == IF parks THEN park(s1, w) ELSE s1
                 IN IF update_raises_event(w1)
                    THEN LET s3 == raise_event(s2, w, "WAVE_STOP")
                         IN [s3 EXCEPT !.waves[w].stop_event = Len(s3.events)]
                    ELSE [s2 EXCEPT !.waves[w].stop_event = NoEvent]
            ELSE s1
  IN IF first_update(s.waves[w])
     THEN [s4 EXCEPT !.waves[w] = update_first(@, outcome)]
     ELSE s4

\* wave_t::~wave_t
destroy_wave(s, w) ==
  LET ds == s.waves[w].displaced_stepping
      s1 == IF ds # NoBuffer
            THEN release(dbgapi_assert(s, "destroy_queue_invalid", FALSE), ds)
            ELSE s
  IN [s1 EXCEPT !.waves[w] = ExitedWave]

\* The queue has just been suspended: waves that have exited are destroyed,
\* every other wave of the queue is updated, in the order of their records.
RECURSIVE update_waves(_, _, _, _)
update_waves(s, ws, outcomes, parks) ==
  IF ws = {} THEN s
  ELSE LET w == CHOOSE x \in ws : \A y \in ws : x <= y
           s1 == IF ~s.waves[w].alive THEN s
                 ELSE IF outcomes[w].kind = "exit" THEN destroy_wave(s, w)
                 ELSE update(s, w, outcomes[w], parks)
       IN update_waves(s1, ws \ {w}, outcomes, parks)

\* scoped_queue_suspend_t: a queue that is already suspended is left alone.
scoped_queue_suspend(s, outcomes, parks) ==
  IF queue_suspended THEN s
  ELSE update_waves([s EXCEPT !.suspended = TRUE], Waves, outcomes, parks)

OutcomeChoices(s) ==
  {o \in [Waves -> UNION {HardwareOutcomes(s, w) : w \in Waves}] :
     \A w \in Waves : o[w] \in HardwareOutcomes(s, w)}

\* What architecture.simulate may do for a call of set_state: it is only
\* called for a single-step without exceptions.
NoSimulate == [ok |-> FALSE, pc |-> 0]

SimulateChoices(state, exceptions) ==
  IF state = "SINGLE_STEP" /\ exceptions = ExceptionNone
  THEN {NoSimulate} \cup {[ok |-> TRUE, pc |-> a] : a \in CodeAddrs}
  ELSE {NoSimulate}

(***************************************************************************)
(* The entry points.                                                       *)
(***************************************************************************)
\* What a call leaves behind: entry point, wave, argument, returned status,
\* whether the call took the scoped queue suspension, the value returned,
\* and the calls made to process ().send_exceptions, each with its ordinal
\* and mask.
Result(op, w, arg, status, suspend, value, sent) ==
  [op |-> op, wave |-> w, arg |-> arg, status |-> status,
   suspend |-> suspend, value |-> value, sent |-> sent]

NoCall == Result("none", 0, "none", "none", FALSE, "none", {})

\* The state after a call that worked on s.
Commit(s, r) ==
  /\ Len(s.events) <= MaxEvents
  /\ waves' = s.waves
  /\ events' = s.events
  /\ buffers' = s.buffers
  /\ agent_exceptions' = s.agent_exceptions
  /\ assert_failed' = s.assert_failed
  /\ ret' = r

\* A call that returns before it changes anything.
Reject(r) ==
  /\ ret' = r
  /\ UNCHANGED <<waves, events, buffers, agent_exceptions, assert_failed>>

valid_resume_mode(resume_mode) == resume_mode \in {"NORMAL", "SINGLE_STEP"}

\* Variant: every bit is let through.
valid_exceptions_any(exceptions) == TRUE

valid_exceptions(exceptions) == exceptions \subseteq RecognizedExceptions

\* Variant: an outstanding stop request is not looked at.
wave_stop_check_no_outstanding(w) ==
  IF ~waves[w].alive THEN "INVALID_WAVE_ID"
  ELSE IF client_visible_state(events, waves[w]) = "STOP" THEN "WAVE_STOPPED"
  ELSE "SUCCESS"

\* The status amd_dbgapi_wave_stop returns before it suspends the queue,
\* "SUCCESS" when it goes on.
wave_stop_check(w) ==
  IF ~waves[w].alive THEN "INVALID_WAVE_ID"
  ELSE IF client_visible_state(events, waves[w]) = "STOP" THEN "WAVE_STOPPED"
  ELSE IF waves[w].stop_requested THEN "WAVE_OUTSTANDING_STOP"
  ELSE "SUCCESS"

\* stops is a history field, kept only by the waves that carry it: what
\* amd_dbgapi_wave_stop has returned for the wave since it was resumed last,
\* "none" for no SUCCESS, "once" for one, "again" for more than one.
has_stops(wr) == "stops" \in DOMAIN wr

wave_stop_returned_success(s, w) ==
  IF has_stops(s.waves[w])
  THEN [s EXCEPT !.waves[w].stops = IF @ = "none" THEN "once" ELSE "again"]
  ELSE s

wave_resume_returned_success(s, w) ==
  IF has_stops(s.waves[w]) THEN [s EXCEPT !.waves[w].stops = "none"] ELSE s

\* Variant: the suspension the call took is kept when the call returns.
scoped_queue_release_kept(suspended_before) == TRUE

\* ~scoped_queue_suspend_t, run on every way out of the scope: the queue is
\* resumed when the scope suspended it, and left suspended when it was
\* suspended before.  The result is whether the queue is suspended afterwards.
scoped_queue_release(suspended_before) == suspended_before

amd_dbgapi_wave_stop(w) ==
  /\ ret = NoCall
  /\ UNCHANGED <<forward_progress_needed, park_stopped_waves>>
  /\ queue_suspended' =
       IF wave_stop_check(w) # "SUCCESS" THEN queue_suspended
       ELSE scoped_queue_release(queue_suspended)
  /\ LET check == wave_stop_check(w)
     IN IF check # "SUCCESS"
        THEN Reject(Result("stop", w, "none", check, FALSE, "none", {}))
        ELSE \E outcomes \in OutcomeChoices(World) :
               LET s1 == scoped_queue_suspend(World, outcomes, park_stopped_waves)
                   after == scoped_queue_release(queue_suspended)
               IN IF ~s1.waves[w].alive
                  THEN Commit(queue_left(s1, after),
                              Result("stop", w, "none", "INVALID_WAVE_ID",
                                     TRUE, "none", {}))
                  ELSE LET s2 == set_state(s1, w, "STOP", ExceptionNone,
                                           park_stopped_waves, NoSimulate)
                           s3 == wave_stop_returned_success(s2, w)
                       IN Commit(queue_left(s3, after),
                                 Result("stop", w, "none", "SUCCESS",
                                        TRUE, "none", s2.sent))

\* Variant: the last stop event is not looked at.
wave_resume_check_no_event(w, resume_mode, exceptions) ==
  IF ~waves[w].alive THEN "INVALID_WAVE_ID"
  ELSE IF ~valid_resume_mode(resume_mode) THEN "INVALID_ARGUMENT"
  ELSE IF ~valid_exceptions(exceptions) THEN "INVALID_ARGUMENT"
  ELSE IF client_visible_state(events, waves[w]) # "STOP"
       THEN "WAVE_NOT_STOPPED"
  ELSE IF waves[w].displaced_stepping # NoBuffer /\ resume_mode # "SINGLE_STEP"
       THEN "RESUME_DISPLACED_STEPPING"
  ELSE "SUCCESS"

\* Variant: an outstanding displaced stepping is not looked at.
wave_resume_check_no_displaced(w, resume_mode, exceptions) ==
  IF ~waves[w].alive THEN "INVALID_WAVE_ID"
  ELSE IF ~valid_resume_mode(resume_mode) THEN "INVALID_ARGUMENT"
  ELSE IF ~valid_exceptions(exceptions) THEN "INVALID_ARGUMENT"
  ELSE IF client_visible_state(events, waves[w]) # "STOP"
       THEN "WAVE_NOT_STOPPED"
  ELSE IF /\ has_last_stop_event(events, waves[w])
          /\ EventRank(events[waves[w].last_stop_event_id].state)
               < EventRank("processed")
       THEN "WAVE_NOT_RESUMABLE"
  ELSE "SUCCESS"

\* The status amd_dbgapi_wave_resume returns before it suspends the queue,
\* "SUCCESS" when it goes on.
wave_resume_check(w, resume_mode, exceptions) ==
  IF ~waves[w].alive THEN "INVALID_WAVE_ID"
  ELSE IF ~valid_resume_mode(resume_mode) THEN "INVALID_ARGUMENT"
  ELSE IF ~valid_exceptions(exceptions) THEN "INVALID_ARGUMENT"
  ELSE IF client_visible_state(events, waves[w]) # "STOP"
       THEN "WAVE_NOT_STOPPED"
  ELSE IF /\ has_last_stop_event(events, waves[w])
          /\ EventRank(events[waves[w].last_stop_event_id].state)
               < EventRank("processed")
       THEN "WAVE_NOT_RESUMABLE"
  ELSE IF waves[w].displaced_stepping # NoBuffer /\ resume_mode # "SINGLE_STEP"
       THEN "RESUME_DISPLACED_STEPPING"
  ELSE "SUCCESS"

\* The wave state a resume mode asks for.
resume_state(resume_mode) ==
  IF resume_mode = "SINGLE_STEP" THEN "SINGLE_STEP" ELSE "RUN"

amd_dbgapi_wave_resume(w, resume_mode, exceptions) ==
  /\ ret = NoCall
  /\ UNCHANGED <<forward_progress_needed, park_stopped_waves>>
  /\ queue_suspended' =
       IF wave_resume_check(w, resume_mode, exceptions) # "SUCCESS"
       THEN queue_suspended
       ELSE scoped_queue_release(queue_suspended)
  /\ LET check == wave_resume_check(w, resume_mode, exceptions)
     IN IF check # "SUCCESS"
        THEN Reject(Result("resume", w, resume_mode, check, FALSE, "none", {}))
        ELSE \E outcomes \in OutcomeChoices(World),
                sim \in SimulateChoices(resume_state(resume_mode), exceptions) :
               LET s1 == scoped_queue_suspend(World, outcomes, park_stopped_waves)
                   after == scoped_queue_release(queue_suspended)
               IN IF ~s1.waves[w].alive
                  THEN Commit(queue_left(s1, after),
                              Result("resume", w, resume_mode,
                                     "INVALID_WAVE_ID", TRUE, "none", {}))
                  ELSE LET s2 == set_state(s1, w, resume_state(resume_mode),
                                           exceptions, park_stopped_waves, sim)
                           s3 == wave_resume_returned_success(s2, w)
                       IN Commit(queue_left(s3, after),
                                 Result("resume", w, resume_mode, "SUCCESS",
                                        TRUE, "none", s2.sent))

\* wave_t::get_info, for the queries the model tells apart.
get_info(w, query) ==
  CASE query = "STATE" -> client_visible_state(events, waves[w])
    [] query = "STOP_REASON" -> waves[w].stop_reason
    [] query = "PC" -> read_register_pc(waves[w])
    [] query = "EXEC_MASK" -> "exec_mask"
    [] query = "WATCHPOINTS" -> "watchpoints"
    [] query = "LANE_COUNT" -> "lane_count"
    [] OTHER -> "none"

\* Variant: the state of the wave_t decides, not the client-visible one.
wave_get_info_check_internal(w, query) ==
  IF ~waves[w].alive THEN "INVALID_WAVE_ID"
  ELSE IF /\ query \in {"STOP_REASON", "PC", "EXEC_MASK", "WATCHPOINTS"}
          /\ waves[w].state # "STOP"
       THEN "WAVE_NOT_STOPPED"
  ELSE IF query = "INVALID_QUERY" THEN "INVALID_ARGUMENT"
  ELSE "SUCCESS"

wave_get_info_check(w, query) ==
  IF ~waves[w].alive THEN "INVALID_WAVE_ID"
  ELSE IF /\ query \in {"STOP_REASON", "PC", "EXEC_MASK", "WATCHPOINTS"}
          /\ client_visible_state(events, waves[w]) # "STOP"
       THEN "WAVE_NOT_STOPPED"
  ELSE IF query = "INVALID_QUERY" THEN "INVALID_ARGUMENT"
  ELSE "SUCCESS"

\* The registers wave_t::get_info reads for a query: pc () reads the pc,
\* exec_mask () reads exec_32 or exec_64.
get_info_registers(s, w, query) ==
  IF query = "PC" THEN read_register_access(s, w, "pc")
  ELSE IF query = "EXEC_MASK"
  THEN read_register_access(s, w, exec_regnum(s.waves[w]))
  ELSE s

amd_dbgapi_wave_get_info(w, query) ==
  /\ ret = NoCall
  /\ UNCHANGED <<queue_suspended, forward_progress_needed, park_stopped_waves>>
  /\ LET check == wave_get_info_check(w, query)
         s1 == IF check = "SUCCESS" THEN get_info_registers(World, w, query)
               ELSE World
     IN /\ ret' = Result("get_info", w, query, check, FALSE,
                         IF check = "SUCCESS" THEN get_info(w, query)
                         ELSE "none", {})
        /\ assert_failed' = s1.assert_failed
        /\ UNCHANGED <<waves, events, buffers, agent_exceptions>>

\* utils::get_handle_list<wave_t>: the waves the client is shown.
wave_list(s) ==
  {w \in Waves : s.waves[w].alive /\ s.waves[w].visibility = "visible"}

\* What process_t::update_queues and utils::get_handle_list<wave_t> hand
\* back to amd_dbgapi_process_wave_list.
UpdateQueuesStatuses == {"SUCCESS", "ERROR"}
WaveListStatuses == {"SUCCESS", "INVALID_ARGUMENT", "CLIENT_CALLBACK"}

\* Variant: the queues the call suspended are left suspended.
wave_list_resume_queues_never(suspended_before, needed) == TRUE

\* The end of amd_dbgapi_process_wave_list: queues_needing_resume holds the
\* queues the call suspended of the processes that need forward progress,
\* and those are resumed.  The result is whether the queue is suspended
\* afterwards.
wave_list_resume_queues(suspended_before, needed) ==
  IF suspended_before THEN TRUE ELSE ~needed

amd_dbgapi_process_wave_list ==
  /\ ret = NoCall
  /\ UNCHANGED <<forward_progress_needed, park_stopped_waves>>
  /\ \E updated \in UpdateQueuesStatuses :
       IF updated # "SUCCESS"
       THEN /\ Reject(Result("list_waves", 0, "none", "FATAL", FALSE, {}, {}))
            /\ UNCHANGED queue_suspended
       ELSE \E outcomes \in OutcomeChoices(World), status \in WaveListStatuses :
              LET s1 == scoped_queue_suspend(World, outcomes,
                                             park_stopped_waves)
                  after == wave_list_resume_queues(queue_suspended,
                                                   forward_progress_needed)
              IN /\ Commit(queue_left(s1, after),
                           Result("list_waves", 0, "none", status, FALSE,
                                  IF status = "SUCCESS" THEN wave_list(s1)
                                  ELSE {}, {}))
                 /\ queue_suspended' = after

(***************************************************************************)
(* Displaced stepping.                                                     *)
(***************************************************************************)
\* Variant: a buffer for this pc, of whichever queue.
find_displaced_stepping_any_queue(s, queue, from) ==
  {b \in BufferIds : s.buffers[b].refcount > 0 /\ s.buffers[b].from = from}

\* process ().find_if: a buffer of the wave's queue for this pc.
find_displaced_stepping(s, queue, from) ==
  {b \in BufferIds : /\ s.buffers[b].refcount > 0
                     /\ s.buffers[b].queue = queue
                     /\ s.buffers[b].from = from}

\* Variant: a buffer found for the pc is used without being retained.
displaced_stepping_start_no_retain(s, w, saved) ==
  LET from == pc(s, w)
      shared == find_displaced_stepping(s, wave_queue(s.waves[w]), from)
      simulate == can_simulate(saved)
      free == {b \in BufferIds : s.buffers[b].refcount = 0}
      b == IF shared # {} THEN CHOOSE x \in shared : TRUE
           ELSE CHOOSE x \in free : \A y \in free : x <= y
      s1 == IF shared # {} THEN s
            ELSE [s EXCEPT !.buffers[b] =
                    [refcount |-> 1, queue |-> wave_queue(s.waves[w]),
                     from |-> from, is_simulated |-> simulate,
                     original |-> saved]]
      s2 == IF ~s1.buffers[b].is_simulated
            THEN write_pc(s1, w, BufferAddr(b))
            ELSE s1
  IN IF shared = {} /\ CodeAt(from) = NoInstruction
     THEN [status |-> "MEMORY_ACCESS", state |-> s]
     ELSE IF shared = {} /\ ~can_execute_displaced(saved) /\ ~simulate
     THEN [status |-> "ILLEGAL_INSTRUCTION", state |-> s]
     ELSE [status |-> "SUCCESS",
           state |-> [s2 EXCEPT !.waves[w].displaced_stepping = b]]

\* Variant: the displaced stepping is created before the instruction is
\* looked at, and stays when the instruction is refused.
displaced_stepping_start_created_first(s, w, saved) ==
  LET from == pc(s, w)
      shared == find_displaced_stepping(s, wave_queue(s.waves[w]), from)
      simulate == can_simulate(saved)
      free == {b \in BufferIds : s.buffers[b].refcount = 0}
      b == IF shared # {} THEN CHOOSE x \in shared : TRUE
           ELSE CHOOSE x \in free : \A y \in free : x <= y
      s1 == IF shared # {} THEN retain(s, b)
            ELSE [s EXCEPT !.buffers[b] =
                    [refcount |-> 1, queue |-> wave_queue(s.waves[w]),
                     from |-> from, is_simulated |-> simulate,
                     original |-> saved]]
      s2 == IF ~s1.buffers[b].is_simulated
            THEN write_pc(s1, w, BufferAddr(b))
            ELSE s1
  IN IF shared = {} /\ CodeAt(from) = NoInstruction
     THEN [status |-> "MEMORY_ACCESS", state |-> s]
     ELSE IF shared = {} /\ ~can_execute_displaced(saved) /\ ~simulate
     THEN [status |-> "ILLEGAL_INSTRUCTION", state |-> s1]
     ELSE [status |-> "SUCCESS",
           state |-> [s2 EXCEPT !.waves[w].displaced_stepping = b]]

\* wave_t::displaced_stepping_start; saved is the instruction the client
\* saved when it inserted the breakpoint.  The result is the status and the
\* state: an exception thrown before anything is written leaves s as it was.
displaced_stepping_start(s, w, saved) ==
  LET s0 == dbgapi_assert(
              dbgapi_assert(s, "start_not_displaced_stepping",
                            s.waves[w].displaced_stepping = NoBuffer),
              "start_stopped", s.waves[w].state = "STOP")
      from == pc(s0, w)
      shared == find_displaced_stepping(s0, wave_queue(s0.waves[w]), from)
      simulate == can_simulate(saved)
      free == {b \in BufferIds : s0.buffers[b].refcount = 0}
      b == IF shared # {} THEN CHOOSE x \in shared : TRUE
           ELSE CHOOSE x \in free : \A y \in free : x <= y
      s1 == IF shared # {} THEN retain(s0, b)
            ELSE [s0 EXCEPT !.buffers[b] =
                    [refcount |-> 1, queue |-> wave_queue(s0.waves[w]),
                     from |-> from, is_simulated |-> simulate,
                     original |-> saved]]
      s2 == IF ~s1.buffers[b].is_simulated
            THEN write_pc(s1, w, BufferAddr(b))
            ELSE s1
  IN IF shared = {} /\ CodeAt(from) = NoInstruction
     THEN [status |-> "MEMORY_ACCESS", state |-> s0]
     ELSE IF shared = {} /\ ~can_execute_displaced(saved) /\ ~simulate
     THEN [status |-> "ILLEGAL_INSTRUCTION", state |-> s0]
     ELSE [status |-> "SUCCESS",
           state |-> [s2 EXCEPT !.waves[w].displaced_stepping = b]]

amd_dbgapi_displaced_stepping_start(w, saved) ==
  /\ ret = NoCall
  /\ waves[w].alive
  /\ waves[w].state = "STOP"
  /\ waves[w].displaced_stepping = NoBuffer
  /\ \/ find_displaced_stepping(World, wave_queue(waves[w]),
                                read_register_pc(waves[w])) # {}
     \/ \E b \in BufferIds : buffers[b].refcount = 0
  /\ UNCHANGED <<queue_suspended, forward_progress_needed, park_stopped_waves>>
  /\ LET r == displaced_stepping_start(World, w, saved)
     IN Commit(r.state, Result("displaced_stepping_start", w, saved, r.status,
                               FALSE, "none", {}))

\* Variant: the pc is put back at from, wherever the wave stopped.
displaced_stepping_complete_at_from(s, w) ==
  LET ds == s.waves[w].displaced_stepping
      s1 == IF ~s.buffers[ds].is_simulated
            THEN write_pc(s, w, s.buffers[ds].from)
            ELSE s
  IN [release(s1, ds) EXCEPT !.waves[w].displaced_stepping = NoBuffer]

\* wave_t::displaced_stepping_complete
displaced_stepping_complete(s, w) ==
  LET s0 == dbgapi_assert(
              dbgapi_assert(s, "complete_displaced_stepping",
                            s.waves[w].displaced_stepping # NoBuffer),
              "complete_stopped", s.waves[w].state = "STOP")
      ds == s0.waves[w].displaced_stepping
      displaced_pc == pc(s0, w)
      restored_pc == displaced_pc + s0.buffers[ds].from - BufferAddr(ds)
      s1 == IF ~s0.buffers[ds].is_simulated
            THEN write_pc(s0, w, restored_pc)
            ELSE s0
  IN [release(s1, ds) EXCEPT !.waves[w].displaced_stepping = NoBuffer]

amd_dbgapi_displaced_stepping_complete(w) ==
  /\ ret = NoCall
  /\ waves[w].alive
  /\ waves[w].state = "STOP"
  /\ waves[w].displaced_stepping # NoBuffer
  /\ UNCHANGED <<queue_suspended, forward_progress_needed, park_stopped_waves>>
  /\ Commit(displaced_stepping_complete(World, w),
            Result("displaced_stepping_complete", w, "none", "SUCCESS", FALSE,
                   "none", {}))

(***************************************************************************)
(* The client's handling of events, the progress mode of the process and   *)
(* the exceptions the driver reports for the agent.                        *)
(***************************************************************************)
\* amd_dbgapi_process_next_pending_event: the oldest queued event is
\* reported to the client.
amd_dbgapi_process_next_pending_event ==
  /\ ret = NoCall
  /\ \E id \in 1 .. Len(events) :
       /\ events[id].state = "queued"
       /\ \A j \in 1 .. (id - 1) : events[j].state # "queued"
       /\ events' = [events EXCEPT ![id].state = "reported"]
  /\ ret' = NoCall
  /\ UNCHANGED <<waves, buffers, queue_suspended, forward_progress_needed,
                 park_stopped_waves, agent_exceptions, assert_failed>>

\* amd_dbgapi_event_processed: the event is marked processed and the
\* process destroys it.
amd_dbgapi_event_processed(id) ==
  /\ ret = NoCall
  /\ id \in 1 .. Len(events)
  /\ events[id].state = "reported"
  /\ events' = [events EXCEPT ![id].state = "processed"]
  /\ ret' = NoCall
  /\ UNCHANGED <<waves, buffers, queue_suspended, forward_progress_needed,
                 park_stopped_waves, agent_exceptions, assert_failed>>

\* amd_dbgapi_process_set_progress: with forward progress required again the
\* suspended queues are resumed.
amd_dbgapi_process_set_progress(needed) ==
  /\ ret = NoCall
  /\ needed # forward_progress_needed
  /\ forward_progress_needed' = needed
  /\ queue_suspended' = IF needed THEN FALSE ELSE queue_suspended
  /\ waves' = IF needed /\ queue_suspended
              THEN flush_dirty_caches(World).waves
              ELSE waves
  /\ ret' = NoCall
  /\ UNCHANGED <<events, buffers, park_stopped_waves, agent_exceptions,
                 assert_failed>>

\* The driver reports a device memory violation for the agent.
agent_memory_violation ==
  /\ ret = NoCall
  /\ "device_memory_violation" \notin agent_exceptions
  /\ \E w \in Waves :
       /\ waves[w].alive
       /\ waves[w].state = "STOP"
       /\ "MEMORY_VIOLATION" \in waves[w].stop_reason
  /\ agent_exceptions' = agent_exceptions \cup {"device_memory_violation"}
  /\ ret' = NoCall
  /\ UNCHANGED <<waves, events, buffers, queue_suspended,
                 forward_progress_needed, park_stopped_waves, assert_failed>>

\* The call has returned and the client has looked at its result; the
\* library is idle until the next call.
call_returns ==
  /\ ret # NoCall
  /\ ret' = NoCall
  /\ UNCHANGED <<waves, events, buffers, queue_suspended,
                 forward_progress_needed, park_stopped_waves, agent_exceptions,
                 assert_failed>>

(***************************************************************************)
(* The specification.                                                      *)
(***************************************************************************)
\* What holds after attach whatever the number of waves.
InitProcess ==
  /\ events = <<>>
  /\ buffers = [b \in BufferIds |-> FreeBuffer]
  /\ queue_suspended = FALSE
  /\ forward_progress_needed = TRUE
  /\ park_stopped_waves \in BOOLEAN
  /\ agent_exceptions = {}
  /\ assert_failed = {}
  /\ ret = NoCall

\* One wave runs on the queue.
Init ==
  /\ waves = [w \in Waves |-> IF w = 1 THEN NewWave ELSE ExitedWave]
  /\ InitProcess

Next ==
  \/ \E w \in {1} : amd_dbgapi_wave_stop(w)
  \/ \E w \in {1}, resume_mode \in ResumeModes, exceptions \in ExceptionArgs :
       amd_dbgapi_wave_resume(w, resume_mode, exceptions)
  \/ \E w \in {1}, query \in WaveInfoQueries :
       amd_dbgapi_wave_get_info(w, query)
  \/ amd_dbgapi_process_wave_list
  \/ \E w \in Waves, saved \in InstructionKinds :
       amd_dbgapi_displaced_stepping_start(w, saved)
  \/ \E w \in Waves : amd_dbgapi_displaced_stepping_complete(w)
  \/ amd_dbgapi_process_next_pending_event
  \/ \E id \in 1 .. MaxEvents : amd_dbgapi_event_processed(id)
  \/ call_returns
  \/ \E needed \in BOOLEAN : amd_dbgapi_process_set_progress(needed)
  \/ agent_memory_violation

Spec == Init /\ [][Next]_vars

(***************************************************************************)
(* Properties.                                                             *)
(***************************************************************************)
\* The last stop event of the wave exists and the client has not processed it.
StopEventOutstanding(w) ==
  /\ has_last_stop_event(events, waves[w])
  /\ EventRank(events[waves[w].last_stop_event_id].state) < EventRank("processed")

\* The call changed neither a wave nor the events nor a buffer, and did not
\* take the queue suspension.
NothingChanged ==
  /\ ~ret'.suspend
  /\ UNCHANGED <<waves, events, buffers, queue_suspended>>

\* C1, as stated: resume (with a valid mode and recognized exceptions) of a
\* stopped wave whose last stop event exists and is not yet processed
\* returns WAVE_NOT_RESUMABLE without suspending the queue and without
\* changing the wave or the events.
C1_AsStated ==
  [][\A w \in Waves, resume_mode \in ResumeModes, exceptions \in ExceptionArgs :
       ( /\ ret = NoCall
         /\ ret'.op = "resume"
         /\ ret'.wave = w
         /\ ret'.arg = resume_mode
         /\ amd_dbgapi_wave_resume(w, resume_mode, exceptions)
         /\ waves[w].alive
         /\ waves[w].state = "STOP"
         /\ valid_resume_mode(resume_mode)
         /\ valid_exceptions(exceptions)
         /\ StopEventOutstanding(w) )
       => (ret'.status = "WAVE_NOT_RESUMABLE" /\ NothingChanged)]_vars

\* C1, amended: such a resume is rejected without suspending the queue and
\* without any change, with WAVE_NOT_RESUMABLE when the wave is in STOP and
\* the event has been reported, and with WAVE_NOT_STOPPED when the event is
\* still queued (or the wave is not in STOP); once the event is processed,
\* the same resume of the stopped wave returns SUCCESS, unless a displaced
\* stepping is outstanding and the mode is not SINGLE_STEP.
C1_ResumeNeedsProcessedEvent ==
  [][\A w \in Waves, resume_mode \in ResumeModes, exceptions \in ExceptionArgs :
       ( /\ ret = NoCall
         /\ ret'.op = "resume"
         /\ ret'.wave = w
         /\ ret'.arg = resume_mode
         /\ amd_dbgapi_wave_resume(w, resume_mode, exceptions)
         /\ waves[w].alive
         /\ valid_resume_mode(resume_mode)
         /\ valid_exceptions(exceptions) )
       => /\ StopEventOutstanding(w)
             => /\ NothingChanged
                /\ ret'.status =
                     IF /\ waves[w].state = "STOP"
                        /\ events[waves[w].last_stop_event_id].state = "reported"
                     THEN "WAVE_NOT_RESUMABLE"
                     ELSE "WAVE_NOT_STOPPED"
          /\ ( /\ waves[w].state = "STOP"
               /\ waves[w].last_stop_event_id # NoEvent
               /\ events[waves[w].last_stop_event_id].state = "processed"
               /\ (waves[w].displaced_stepping = NoBuffer
                     \/ resume_mode = "SINGLE_STEP") )
             => (ret'.status = "SUCCESS" /\ ret'.suspend)]_vars

\* C1 witness: a resume was refused because the reported stop event of the
\* stopped wave is not processed.
C1_Witness ==
  /\ ret.op = "resume"
  /\ ret.status = "WAVE_NOT_RESUMABLE"
  /\ waves[ret.wave].state = "STOP"
  /\ events[waves[ret.wave].last_stop_event_id].state = "reported"

\* C2, as stated: whenever client_visible_state returns STOP, the stop that
\* put the wave into STOP has an event, and that event is at least reported.
C2_AsStated ==
  \A w \in Waves :
    (waves[w].alive /\ client_visible_state(events, waves[w]) = "STOP")
    => /\ waves[w].stop_event # NoEvent
       /\ EventRank(events[waves[w].stop_event].state) >= EventRank("reported")

\* C2, amended: whenever client_visible_state returns STOP the wave is in
\* STOP and, if the stop that put it there raised an event, that event is
\* the wave's last stop event and is at least reported; a stop that raised
\* no event (found by update () with stop reason NONE) is visible at once.
C2_StopVisibleAfterReport ==
  \A w \in Waves :
    (waves[w].alive /\ client_visible_state(events, waves[w]) = "STOP")
    => /\ waves[w].state = "STOP"
       /\ waves[w].stop_event # NoEvent
          => /\ waves[w].last_stop_event_id = waves[w].stop_event
             /\ EventRank(events[waves[w].stop_event].state)
                  >= EventRank("reported")

\* C2 witness: a stop whose event has been reported, but not yet processed,
\* is visible to the client.
C2_Witness ==
  \E w \in Waves :
    /\ waves[w].alive
    /\ client_visible_state(events, waves[w]) = "STOP"
    /\ waves[w].stop_event # NoEvent
    /\ events[waves[w].stop_event].state = "reported"

\* C3, as stated: resume (w, NORMAL, exceptions) of a wave that the client
\* sees stopped and that has an outstanding displaced stepping returns
\* RESUME_DISPLACED_STEPPING for any recognized exceptions, without
\* suspending the queue and without changing the wave's state, pc or
\* displaced stepping buffer.
C3_AsStated ==
  [][\A w \in Waves, exceptions \in ExceptionArgs :
       ( /\ ret = NoCall
         /\ ret'.op = "resume"
         /\ ret'.wave = w
         /\ amd_dbgapi_wave_resume(w, "NORMAL", exceptions)
         /\ waves[w].alive
         /\ client_visible_state(events, waves[w]) = "STOP"
         /\ valid_exceptions(exceptions)
         /\ waves[w].displaced_stepping # NoBuffer )
       => (ret'.status = "RESUME_DISPLACED_STEPPING" /\ NothingChanged)]_vars

\* C3, amended: such a resume never succeeds and changes nothing, for any
\* exceptions argument; it returns RESUME_DISPLACED_STEPPING when the checks
\* made before it pass (recognized exception bits, client-visible state
\* STOP, last stop event processed), and otherwise the status of the first
\* of those checks that fails.
C3_DisplacedSteppingOnlySingleStep ==
  [][\A w \in Waves, exceptions \in ExceptionArgs :
       ( /\ ret = NoCall
         /\ ret'.op = "resume"
         /\ ret'.wave = w
         /\ amd_dbgapi_wave_resume(w, "NORMAL", exceptions)
         /\ waves[w].alive
         /\ waves[w].displaced_stepping # NoBuffer )
       => /\ NothingChanged
          /\ ret'.status =
               IF ~valid_exceptions(exceptions) THEN "INVALID_ARGUMENT"
               ELSE IF client_visible_state(events, waves[w]) # "STOP"
                    THEN "WAVE_NOT_STOPPED"
               ELSE IF StopEventOutstanding(w) THEN "WAVE_NOT_RESUMABLE"
               ELSE "RESUME_DISPLACED_STEPPING"]_vars

\* C3 witness: a normal resume was refused because of the displaced stepping.
C3_Witness ==
  /\ ret.op = "resume"
  /\ ret.arg = "NORMAL"
  /\ ret.status = "RESUME_DISPLACED_STEPPING"
  /\ waves[ret.wave].displaced_stepping # NoBuffer

\* terminate () has run for w in this step: it only runs in a resume, which
\* then raises WAVE_COMMAND_TERMINATED, an event no other resume raises.
TerminateRan(w) ==
  /\ ret'.op = "resume"
  /\ ret'.wave = w
  /\ ret'.status = "SUCCESS"
  /\ waves'[w].terminated
  /\ Len(events') = Len(events) + 1
  /\ events'[Len(events')].kind = "WAVE_COMMAND_TERMINATED"

\* C5: when terminate () has run for a wave the wave is hidden at the
\* terminating instruction and in RUN, its displaced stepping, if it had
\* one, is released; from then on the wave stays hidden, and no wave list
\* returned to the client contains it.
C5_TerminatedWaveHidden ==
  /\ [][\A w \in Waves :
          TerminateRan(w)
          => /\ waves'[w].visibility = "hidden_at_terminating_instruction"
             /\ waves'[w].state = "RUN"
             /\ waves'[w].displaced_stepping = NoBuffer
             /\ buffers' = IF waves[w].displaced_stepping # NoBuffer
                           THEN release(World, waves[w].displaced_stepping).buffers
                           ELSE buffers]_vars
  /\ [](\A w \in Waves :
          (waves[w].alive /\ waves[w].terminated)
          => waves[w].visibility = "hidden_at_terminating_instruction")
  /\ [](ret.op = "list_waves"
          => \A w \in ret.value : waves[w].alive /\ ~waves[w].terminated)

\* C5 witness: the wave list is returned while a terminated wave still exists.
C5_Witness ==
  /\ ret.op = "list_waves"
  /\ \E w \in Waves : waves[w].alive /\ waves[w].terminated

\* The instruction a single-step of the wave would execute is a terminating
\* instruction: the displaced original, or else the instruction at pc.
SingleStepTerminates(w) ==
  IF waves[w].displaced_stepping # NoBuffer
  THEN is_terminating_instruction(buffers[waves[w].displaced_stepping].original)
  ELSE is_terminating_instruction(instruction_at_pc(World, w))

\* C6: a successful resume (w, SINGLE_STEP, NONE) whose instruction to
\* execute is terminating leaves the wave in RUN, hidden, without displaced
\* stepping and not parked, with the pc of its context save record at the
\* terminating instruction address, and enqueues exactly one event, a
\* WAVE_COMMAND_TERMINATED for w.
C6_SingleStepTerminating ==
  [][\A w \in Waves :
       ( /\ ret = NoCall
         /\ ret'.op = "resume"
         /\ ret'.wave = w
         /\ amd_dbgapi_wave_resume(w, "SINGLE_STEP", ExceptionNone)
         /\ wave_resume_check(w, "SINGLE_STEP", ExceptionNone) = "SUCCESS"
         /\ SingleStepTerminates(w) )
       => /\ ret'.status = "SUCCESS"
          /\ waves'[w].state = "RUN"
          /\ waves'[w].terminated
          /\ waves'[w].visibility = "hidden_at_terminating_instruction"
          /\ waves'[w].displaced_stepping = NoBuffer
          /\ ~waves'[w].is_parked
          /\ waves'[w].pc = TerminateAddr
          /\ Len(events') = Len(events) + 1
          /\ events'[Len(events')] =
               [kind |-> "WAVE_COMMAND_TERMINATED", wave |-> w,
                state |-> "queued"]
          /\ \A id \in 1 .. Len(events) : events'[id] = events[id]]_vars

\* C6 witness: on an architecture that parks stopped waves, a single-step
\* of a terminating instruction has terminated the wave.
C6_Witness ==
  /\ park_stopped_waves
  /\ ret.op = "resume"
  /\ ret.arg = "SINGLE_STEP"
  /\ ret.status = "SUCCESS"
  /\ waves[ret.wave].terminated
  /\ waves[ret.wave].pc = TerminateAddr

\* C7: stop (w) returns WAVE_STOPPED when the client-visible state is STOP,
\* otherwise WAVE_OUTSTANDING_STOP when a stop is requested, in both cases
\* without suspending the queue, raising an event or changing a wave; only
\* when neither holds it suspends the queue and calls set_state (STOP),
\* which leaves the wave in STOP unless it exited during the suspension.
C7_StopRejections ==
  [][\A w \in Waves :
       (amd_dbgapi_wave_stop(w) /\ waves[w].alive)
       => IF client_visible_state(events, waves[w]) = "STOP"
          THEN ret'.status = "WAVE_STOPPED" /\ NothingChanged
          ELSE IF waves[w].stop_requested
          THEN ret'.status = "WAVE_OUTSTANDING_STOP" /\ NothingChanged
          ELSE /\ ret'.suspend
               /\ \/ ret'.status = "SUCCESS" /\ waves'[w].state = "STOP"
                  \/ ret'.status = "INVALID_WAVE_ID" /\ ~waves'[w].alive]_vars

\* C7 witness: a stop was refused because a stop is already requested, while
\* the wave is not yet visible as stopped.
C7_Witness ==
  /\ ret.op = "stop"
  /\ ret.status = "WAVE_OUTSTANDING_STOP"
  /\ waves[ret.wave].stop_requested
  /\ client_visible_state(events, waves[ret.wave]) # "STOP"

\* C8: resume rejects, before suspending the queue and without any change,
\* an invalid mode with INVALID_ARGUMENT, an exception bit that is not
\* recognized with INVALID_ARGUMENT, and a wave that is not visibly stopped
\* with WAVE_NOT_STOPPED; set_state never meets an unrecognized bit.
C8_ResumeArgumentChecks ==
  /\ []("valid_exception" \notin assert_failed)
  /\ [][\A w \in Waves, resume_mode \in ResumeModes, exceptions \in ExceptionArgs :
          ( /\ ret = NoCall
            /\ ret'.op = "resume"
            /\ ret'.wave = w
            /\ ret'.arg = resume_mode
            /\ waves[w].alive
            /\ amd_dbgapi_wave_resume(w, resume_mode, exceptions) )
          => /\ ~valid_resume_mode(resume_mode)
                => (ret'.status = "INVALID_ARGUMENT" /\ NothingChanged)
             /\ ~(exceptions \subseteq RecognizedExceptions)
                => (ret'.status = "INVALID_ARGUMENT" /\ NothingChanged)
             /\ ( /\ valid_resume_mode(resume_mode)
                  /\ exceptions \subseteq RecognizedExceptions
                  /\ client_visible_state(events, waves[w]) # "STOP" )
                => (ret'.status = "WAVE_NOT_STOPPED" /\ NothingChanged)]_vars

\* C8 witness: a resume with a valid mode was refused as an invalid argument
\* (its exceptions hold a bit that is not recognized) on a stopped wave that
\* could have been resumed.
C8_Witness ==
  /\ ret.op = "resume"
  /\ ret.arg = "NORMAL"
  /\ ret.status = "INVALID_ARGUMENT"
  /\ wave_resume_check(ret.wave, "NORMAL", ExceptionNone) = "SUCCESS"

\* C9: get_info for PC, EXEC_MASK, STOP_REASON and WATCHPOINTS returns
\* WAVE_NOT_STOPPED whenever the client-visible state is not STOP, and
\* get_info (STATE) returns the client-visible state.
C9_GetInfoClientVisible ==
  (ret.op = "get_info" /\ waves[ret.wave].alive)
  => /\ ( /\ ret.arg \in {"PC", "EXEC_MASK", "STOP_REASON", "WATCHPOINTS"}
          /\ client_visible_state(events, waves[ret.wave]) # "STOP" )
        => ret.status = "WAVE_NOT_STOPPED"
     /\ ret.arg = "STATE"
        => /\ ret.status = "SUCCESS"
           /\ ret.value = client_visible_state(events, waves[ret.wave])
           /\ (waves[ret.wave].state = "STOP"
                 /\ StopEventOutstanding(ret.wave)
                 /\ events[waves[ret.wave].last_stop_event_id].state = "queued")
              => ret.value # "STOP"

\* C9 witness: the pc was refused for a wave that is in STOP but whose stop
\* event is not yet reported.
C9_Witness ==
  /\ ret.op = "get_info"
  /\ ret.arg = "PC"
  /\ ret.status = "WAVE_NOT_STOPPED"
  /\ waves[ret.wave].state = "STOP"

\* C10: a successful resume (w, NORMAL, NONE) of a wave stopped at pc P
\* leaves it in RUN with stop reason NONE, no stop requested and
\* last_stopped_pc = P, and enqueues no event.
C10_ResumeNormal ==
  [][\A w \in Waves :
       ( /\ ret = NoCall
         /\ ret'.op = "resume"
         /\ ret'.wave = w
         /\ amd_dbgapi_wave_resume(w, "NORMAL", ExceptionNone)
         /\ wave_resume_check(w, "NORMAL", ExceptionNone) = "SUCCESS" )
       => /\ ret'.status = "SUCCESS"
          /\ waves'[w].state = "RUN"
          /\ waves'[w].stop_reason = StopReasonNone
          /\ ~waves'[w].stop_requested
          /\ waves'[w].last_stopped_pc = read_register_pc(waves[w])
          /\ waves'[w].pc = read_register_pc(waves[w])
          /\ ~waves'[w].is_parked
          /\ events' = events]_vars

\* C10 witness: on an architecture that parks stopped waves, a wave whose
\* stop event was processed has been resumed normally from pc 2.
C10_Witness ==
  /\ park_stopped_waves
  /\ ret.op = "resume"
  /\ ret.arg = "NORMAL"
  /\ ret.status = "SUCCESS"
  /\ ret.sent = {}
  /\ waves[ret.wave].state = "RUN"
  /\ waves[ret.wave].last_stopped_pc = 2
  /\ waves[ret.wave].last_stop_event_id # NoEvent
  /\ events[waves[ret.wave].last_stop_event_id].state = "processed"

(***************************************************************************)
(* Two waves of one queue that the first suspension of the queue found     *)
(* halted at the same pc, and a client that steps them over a breakpoint   *)
(* at that pc with displaced stepping and single-steps them, before it     *)
(* fetches any event.                                                      *)
(***************************************************************************)
\* The wave_t objects are created by the refresh that finds the waves in the
\* context save area: update () finds both halted with stop reason NONE.
InitPair ==
  /\ InitProcess
  /\ \E a \in CodeAddrs :
       LET found == [kind |-> "stop", reason |-> StopReasonNone, pc |-> a]
           s == [waves |-> [w \in Waves |-> NewWave], events |-> <<>>,
                 buffers |-> [b \in BufferIds |-> FreeBuffer],
                 agent_exceptions |-> {}, assert_failed |-> {}, sent |-> {},
                 suspended |-> TRUE]
       IN waves = update_waves(s, Waves, [w \in Waves |-> found],
                               park_stopped_waves).waves

NextPair ==
  \/ \E w \in Waves : amd_dbgapi_wave_resume(w, "SINGLE_STEP", ExceptionNone)
  \/ \E w \in Waves, saved \in InstructionKinds :
       amd_dbgapi_displaced_stepping_start(w, saved)
  \/ \E w \in Waves : amd_dbgapi_displaced_stepping_complete(w)
  \/ call_returns

SpecPair == InitPair /\ [][NextPair]_vars

\* The waves whose displaced_stepping refers to buffer b.
UsersOf(b) == {w \in Waves : waves[w].alive /\ waves[w].displaced_stepping = b}

\* C4: the reference count of a displaced stepping buffer is the number of
\* waves whose displaced_stepping refers to it, a buffer exists exactly
\* while a wave refers to it, and there is one buffer per pc: a second wave
\* that starts displaced stepping at the pc of an existing buffer retains
\* that buffer and creates none.
C4_SharedBuffer ==
  /\ \A b \in BufferIds :
       /\ buffers[b].refcount = Cardinality(UsersOf(b))
       /\ buffers[b].refcount = 0 => buffers[b] = FreeBuffer
       /\ \A c \in BufferIds :
            (c # b /\ buffers[b].refcount > 0 /\ buffers[c].refcount > 0)
            => buffers[b].from # buffers[c].from
  /\ ( /\ ret.op = "displaced_stepping_start"
       /\ ret.status = "SUCCESS" )
     => LET b == waves[ret.wave].displaced_stepping
        IN /\ b # NoBuffer
           /\ buffers[b].refcount >= 1
           /\ buffers[b].original # NoInstruction

\* C4 witness: the second of two waves stopped at the same pc has started
\* displaced stepping, and both share one buffer.
C4_Witness ==
  /\ ret.op = "displaced_stepping_start"
  /\ ret.status = "SUCCESS"
  /\ \E b \in BufferIds :
       /\ buffers[b].refcount = 2
       /\ UsersOf(b) = Waves


(***************************************************************************)
(* The pc of a parked wave.                                                *)
(***************************************************************************)
\* amd_dbgapi_write_register (wave, pc, v): the client sets the pc of a wave
\* it sees stopped.
amd_dbgapi_write_register_pc(w, v) ==
  /\ ret = NoCall
  /\ UNCHANGED <<queue_suspended, forward_progress_needed, park_stopped_waves>>
  /\ IF ~waves[w].alive
     THEN Reject(Result("write_register", w, v, "INVALID_WAVE_ID", FALSE,
                        "none", {}))
     ELSE IF client_visible_state(events, waves[w]) # "STOP"
     THEN Reject(Result("write_register", w, v, "WAVE_NOT_STOPPED", FALSE,
                        "none", {}))
     ELSE Commit([World EXCEPT !.waves[w] = write_register_pc(waves[w], v)],
                 Result("write_register", w, v, "SUCCESS", FALSE, "none", {}))

\* The calls of a client that stops a wave, moves its pc and resumes it.
NextPark ==
  \/ \E w \in {1} : amd_dbgapi_wave_stop(w)
  \/ \E w \in {1}, resume_mode \in {"NORMAL", "SINGLE_STEP"} :
       amd_dbgapi_wave_resume(w, resume_mode, ExceptionNone)
  \/ \E w \in {1} : amd_dbgapi_wave_get_info(w, "PC")
  \/ \E w \in {1}, v \in CodeAddrs : amd_dbgapi_write_register_pc(w, v)
  \/ amd_dbgapi_process_next_pending_event
  \/ \E id \in 1 .. MaxEvents : amd_dbgapi_event_processed(id)
  \/ call_returns

SpecPark == Init /\ [][NextPark]_vars

\* C11: while a wave is parked the pc of its context save record stays at the
\* park instruction and a read of the pc returns parked_pc; a write of the pc
\* of a parked wave changes parked_pc and nothing else of the wave, and the
\* pc read next is the value written; a resume that leaves the wave unparked
\* puts the last parked_pc (the terminating instruction's address when the
\* resume terminated the wave) into the context save record, from which the
\* pc is read afterwards.
C11_ParkedPcCoherence ==
  /\ [](\A w \in Waves :
          waves[w].alive /\ waves[w].is_parked =>
            /\ waves[w].pc = ParkAddr
            /\ read_register_pc(waves[w]) = waves[w].parked_pc
            /\ (ret.op = "get_info" /\ ret.wave = w /\ ret.arg = "PC"
                /\ ret.status = "SUCCESS" => ret.value = waves[w].parked_pc))
  /\ [][\A w \in Waves, v \in CodeAddrs :
          ( /\ amd_dbgapi_write_register_pc(w, v)
            /\ waves[w].is_parked
            /\ ret'.status = "SUCCESS" ) =>
          ( /\ waves'[w] = [waves[w] EXCEPT !.parked_pc = v]
            /\ read_register_pc(waves'[w]) = v
            /\ UNCHANGED <<events, buffers, queue_suspended>> )]_vars
  /\ [][\A w \in Waves, resume_mode \in ResumeModes :
          ( /\ amd_dbgapi_wave_resume(w, resume_mode, ExceptionNone)
            /\ waves[w].is_parked
            /\ ret'.status = "SUCCESS"
            /\ waves'[w].alive
            /\ ~waves'[w].is_parked ) =>
          ( /\ waves'[w].pc = IF TerminateRan(w) THEN TerminateAddr
                              ELSE waves[w].parked_pc
            /\ read_register_pc(waves'[w]) = waves'[w].pc )]_vars

\* The client has moved the pc of a parked wave that it had resumed and
\* stopped before.
C11_Witness ==
  /\ ret.op = "write_register"
  /\ ret.status = "SUCCESS"
  /\ waves[1].is_parked
  /\ waves[1].parked_pc = ret.arg
  /\ waves[1].pc = ParkAddr
  /\ waves[1].last_stopped_pc # 0
  /\ waves[1].last_stopped_pc # ret.arg


(***************************************************************************)
(* Memory transfers.                                                       *)
(***************************************************************************)
\* Width of size_t, amd_dbgapi_size_t and the addresses, in bits.
WordBits == 5
Wrap(x) == x % (2 ^ WordBits)
Words == 0 .. (2 ^ WordBits - 1)

\* address_space.address_size () of the private and local address spaces.
AddressBits == WordBits - 2

AddressSpaceKinds ==
  {"private_swizzled", "private_unswizzled", "local", "global", "region"}

address_size(kind) == IF kind = "global" THEN WordBits ELSE AddressBits

\* wave_t::lane_count () and the lane ids a client passes.
LaneCounts == {2, 3}
LaneNone == 2 ^ WordBits - 1
LaneIds == {0, 1, 2, LaneNone}

\* Sizes of the scratch region and of the LDS.
Limits == {0, 3, 4, 8, 13, 16, 24}

\* The largest size of a swizzled transfer, and the addresses a client
\* passes: one bit more than the private and local address spaces have.
MaxSwizzledSize == 9
Addresses == 0 .. (2 ^ (AddressBits + 1) - 1)

\* Global memory is accessible up to the end of the region, one byte less,
\* or some bytes beyond it.
BackedDeltas == {-1, 0, 4}

Min(a, b) == IF a < b THEN a ELSE b

\* process ().read_global_memory_partial / write_global_memory_partial at
\* offset from the region's base: the bytes transferred and the status.  The
\* memory hw behind a transfer is lane_count, the limit of the region
\* (scratch_size or lds_size), the bytes accessible from the region's base,
\* and what a transfer that moves nothing returns.
global_memory_partial(hw, offset, size) ==
  LET avail == IF offset < hw.backed THEN hw.backed - offset ELSE 0
      got == Min(size, avail)
  IN IF size > 0 /\ got = 0 /\ hw.zero_is_error
     THEN [status |-> "MEMORY_ACCESS", size |-> 0]
     ELSE [status |-> "SUCCESS", size |-> got]

\* One call of the partial transfer, as the function that made it sees it.
Access(offset, request, t) ==
  [offset |-> offset, request |-> request, size |-> t.size,
   status |-> t.status]

\* Variant: the lanes' dwords are not interleaved.
swizzled_offset_linear(hw, lane_id, segment_address) ==
  Wrap(Wrap(lane_id * 4) + segment_address)

\* The offset in the scratch region of the byte at segment_address of a lane.
swizzled_offset(hw, lane_id, segment_address) ==
  Wrap(Wrap((segment_address \div 4) * hw.lane_count * 4)
       + Wrap(lane_id * 4) + (segment_address % 4))

\* The loop of xfer_private_memory_swizzled: "return" leaves the function
\* with the status, "done" leaves the loop.
RECURSIVE swizzled_loop(_, _, _, _, _)
swizzled_loop(hw, lane_id, segment_address, bytes, accesses) ==
  IF bytes = 0
  THEN [exit |-> "done", status |-> "SUCCESS", bytes |-> bytes,
        accesses |-> accesses]
  ELSE
    LET request_size == Min(Wrap(4 - (segment_address % 4)), bytes)
        offset == swizzled_offset(hw, lane_id, segment_address)
        outside == Wrap(offset + request_size) > hw.limit
        xfer_size == IF ~outside THEN request_size
                     ELSE IF offset < hw.limit THEN hw.limit - offset
                     ELSE 0
        t == global_memory_partial(hw, offset, xfer_size)
        accesses1 == Append(accesses, Access(offset, xfer_size, t))
    IN IF outside /\ xfer_size = 0
       THEN [exit |-> "return", status |-> "MEMORY_ACCESS", bytes |-> bytes,
             accesses |-> accesses]
       ELSE IF t.status # "SUCCESS"
       THEN [exit |-> "return", status |-> t.status, bytes |-> bytes,
             accesses |-> accesses1]
       ELSE IF request_size # t.size
       THEN [exit |-> "done", status |-> "SUCCESS",
             bytes |-> bytes - t.size, accesses |-> accesses1]
       ELSE swizzled_loop(hw, lane_id, Wrap(segment_address + t.size),
                          bytes - t.size, accesses1)

\* wave_t::xfer_private_memory_swizzled: the status, *size and the calls of
\* the partial transfer.
xfer_private_memory_swizzled(hw, segment_address, lane_id, size) ==
  IF lane_id = LaneNone \/ lane_id >= hw.lane_count
  THEN [status |-> "INVALID_LANE_ID", size |-> size, accesses |-> <<>>]
  ELSE LET l == swizzled_loop(hw, lane_id, segment_address, size, <<>>)
       IN IF l.exit = "return"
          THEN [status |-> l.status, size |-> size, accesses |-> l.accesses]
          ELSE IF l.bytes # 0 /\ l.bytes = size
          THEN [status |-> "MEMORY_ACCESS", size |-> size,
                accesses |-> l.accesses]
          ELSE [status |-> "SUCCESS", size |-> size - l.bytes,
                accesses |-> l.accesses]

\* The bounds check of xfer_private_memory_unswizzled and xfer_local_memory,
\* followed by the transfer.
xfer_linear(hw, offset, size) ==
  LET outside == Wrap(offset + size) > hw.limit
      max_size == IF offset < hw.limit THEN hw.limit - offset ELSE 0
      size1 == IF outside THEN max_size ELSE size
      t == global_memory_partial(hw, offset, size1)
  IN IF outside /\ max_size = 0 /\ size # 0
     THEN [status |-> "MEMORY_ACCESS", size |-> size, accesses |-> <<>>]
     ELSE [status |-> t.status, size |-> t.size,
           accesses |-> <<Access(offset, size1, t)>>]

xfer_private_memory_unswizzled(hw, segment_address, size) ==
  xfer_linear(hw, segment_address, size)

xfer_local_memory(hw, segment_address, size) ==
  xfer_linear(hw, segment_address, size)

\* wave_t::xfer_segment_memory on a stopped wave of a suspended queue, for
\* every address space, lane, address and size a caller passes and every
\* memory behind the transfer.
xfer_segment_memory(w) ==
  /\ ret = NoCall
  /\ waves[w].alive
  /\ waves[w].state = "STOP"
  /\ queue_suspended
  /\ \E kind \in AddressSpaceKinds, lane_id \in LaneIds,
        address \in Addresses, size \in Words, lane_count \in LaneCounts,
        limit \in Limits, d \in BackedDeltas, zero_is_error \in BOOLEAN :
       /\ kind = "private_swizzled" \/ (lane_id = 0 /\ lane_count = 2)
       /\ kind = "private_swizzled" => size <= MaxSwizzledSize
       /\ kind \in {"global", "region"} => limit = 8
       /\ limit + d >= 0
       /\ LET hw == [lane_count |-> lane_count, limit |-> limit,
                     backed |-> limit + d, zero_is_error |-> zero_is_error]
              segment_address == address % (2 ^ address_size(kind))
              t == global_memory_partial(hw, segment_address, size)
              r == CASE kind = "private_swizzled" ->
                          xfer_private_memory_swizzled(hw, segment_address,
                                                       lane_id, size)
                     [] kind = "private_unswizzled" ->
                          xfer_private_memory_unswizzled(hw, segment_address,
                                                         size)
                     [] kind = "local" ->
                          xfer_local_memory(hw, segment_address, size)
                     [] kind = "global" ->
                          [status |-> t.status, size |-> t.size,
                           accesses |-> <<Access(segment_address, size, t)>>]
                     [] OTHER ->
                          [status |-> "MEMORY_ACCESS", size |-> size,
                           accesses |-> <<>>]
          IN ret' = Result("xfer_segment_memory", w,
                           [kind |-> kind, lane_id |-> lane_id,
                            segment_address |-> segment_address,
                            size |-> size, hw |-> hw],
                           r.status, FALSE,
                           [size |-> r.size, accesses |-> r.accesses], {})
  /\ UNCHANGED <<waves, events, buffers, queue_suspended,
                 forward_progress_needed, park_stopped_waves, agent_exceptions,
                 assert_failed>>

\* A stopped wave on a suspended queue.
InitXfer ==
  /\ waves = [w \in Waves |->
                IF w = 1 THEN [NewWave EXCEPT !.state = "STOP"]
                ELSE ExitedWave]
  /\ events = <<>>
  /\ buffers = [b \in BufferIds |-> FreeBuffer]
  /\ queue_suspended = TRUE
  /\ forward_progress_needed = FALSE
  /\ park_stopped_waves = FALSE
  /\ agent_exceptions = {}
  /\ assert_failed = {}
  /\ ret = NoCall

NextXfer ==
  \/ \E w \in {1} : xfer_segment_memory(w)
  \/ call_returns

SpecXfer == InitXfer /\ [][NextXfer]_vars


\* The last call was a transfer in the address space kind.
Transferred(kind) ==
  /\ ret.op = "xfer_segment_memory"
  /\ ret.arg.kind = kind

\* The bytes the accesses of the last transfer moved, as offsets from the
\* region's base.
BytesMoved ==
  UNION {{ret.value.accesses[i].offset + k :
            k \in 0 .. (ret.value.accesses[i].size - 1)} :
         i \in 1 .. Len(ret.value.accesses)}

\* The number of bytes the accesses of the last transfer moved.
RECURSIVE SizeMoved(_)
SizeMoved(i) ==
  IF i = 0 THEN 0 ELSE ret.value.accesses[i].size + SizeMoved(i - 1)

\* Where the byte x of lane l lies in a scratch region of lane_count lanes.
ScratchOffset(x, l, lane_count) ==
  (x \div 4) * lane_count * 4 + l * 4 + (x % 4)

\* The start of the i-th chunk of a transfer from a: a itself, then the
\* dword boundaries.
ChunkStart(a, i) == IF i = 1 THEN a ELSE ((a \div 4) + i - 1) * 4

\* The number of chunks of a transfer of n bytes from a.
ChunkCount(a, n) ==
  IF n = 0 THEN 0 ELSE ((a + n - 1) \div 4) - (a \div 4) + 1

\* C12: a swizzled private transfer of n bytes at address a for lane l, all
\* of whose bytes lie inside the scratch region (whose memory is
\* accessible), is made in chunks of min (4 - a % 4, n) bytes, then 4 bytes,
\* ..., then the rest; the chunk that starts at x is accessed at
\* scratch_base + (x / 4) * lane_count * 4 + l * 4 + x % 4; the call
\* returns SUCCESS with *size = n.
C12_SwizzledChunks ==
  Transferred("private_swizzled") =>
    LET a == ret.arg.segment_address
        n == ret.arg.size
        l == ret.arg.lane_id
        hw == ret.arg.hw
    IN ( /\ l # LaneNone
         /\ l < hw.lane_count
         /\ hw.backed >= hw.limit
         /\ \A x \in a .. (a + n - 1) :
              ScratchOffset(x, l, hw.lane_count) < hw.limit ) =>
       ( /\ ret.status = "SUCCESS"
         /\ ret.value.size = n
         /\ Len(ret.value.accesses) = ChunkCount(a, n)
         /\ \A i \in 1 .. ChunkCount(a, n) :
              LET x == ChunkStart(a, i)
                  size == Min(4 - (x % 4), a + n - x)
              IN ret.value.accesses[i]
                   = [offset |-> ScratchOffset(x, l, hw.lane_count),
                      request |-> size, size |-> size,
                      status |-> "SUCCESS"] )

\* A transfer inside the scratch region made of a short first chunk, a
\* dword and a short last chunk.
C12_Witness ==
  /\ Transferred("private_swizzled")
  /\ ret.status = "SUCCESS"
  /\ ret.arg.lane_id = 1
  /\ ret.arg.hw.lane_count = 2
  /\ ret.arg.hw.backed >= ret.arg.hw.limit
  /\ ret.value.size = ret.arg.size
  /\ Len(ret.value.accesses) = 3
  /\ ret.value.accesses[1].size = 1
  /\ ret.value.accesses[2].size = 4
  /\ ret.value.accesses[3].size = 2
  /\ ret.value.accesses[3].offset = 20


\* C13, as stated: a swizzled transfer (of accessible memory) returns
\* MEMORY_ACCESS only when the request is not empty and no byte was
\* transferred; once a chunk has been transferred the call returns SUCCESS
\* with *size set to the bytes transferred, wherever the later chunks lie.
C13_AsStated ==
  ( /\ Transferred("private_swizzled")
    /\ ret.arg.hw.backed >= ret.arg.hw.limit
    /\ ret.status # "INVALID_LANE_ID" ) =>
    /\ ret.status = "MEMORY_ACCESS" =>
         ret.arg.size # 0 /\ BytesMoved = {}
    /\ BytesMoved # {} =>
         /\ ret.status = "SUCCESS"
         /\ ret.value.size = SizeMoved(Len(ret.value.accesses))

\* C14, as stated: for the local and the unswizzled private address spaces
\* with limit L, a request [a, a + n) that crosses L is truncated to L - a
\* bytes, a request with n > 0 and a >= L returns MEMORY_ACCESS without an
\* access, a request of size 0 succeeds, and no byte at an offset >= L is
\* read or written.
C14_AsStated ==
  (Transferred("local") \/ Transferred("private_unswizzled")) =>
    LET a == ret.arg.segment_address
        n == ret.arg.size
        L == ret.arg.hw.limit
    IN /\ (a < L /\ a + n > L) =>
            /\ Len(ret.value.accesses) = 1
            /\ ret.value.accesses[1].offset = a
            /\ ret.value.accesses[1].request = L - a
       /\ (n > 0 /\ a >= L) =>
            ret.status = "MEMORY_ACCESS" /\ ret.value.accesses = <<>>
       /\ n = 0 => ret.status = "SUCCESS"
       /\ \A x \in BytesMoved : x < L


\* One byte of the last dword of lane 0 has been transferred, the second
\* byte asked for would lie behind the scratch region: MEMORY_ACCESS.
C13_Witness ==
  /\ Transferred("private_swizzled")
  /\ ret.arg.hw = [lane_count |-> 2, limit |-> 8, backed |-> 8,
                   zero_is_error |-> FALSE]
  /\ ret.arg.lane_id = 0
  /\ ret.arg.segment_address = 3
  /\ ret.arg.size = 2
  /\ ret.status = "MEMORY_ACCESS"
  /\ ret.value.size = 2
  /\ BytesMoved = {3}

\* A size that wraps the sum around: the request starts behind the limit
\* and bytes behind the limit are transferred with SUCCESS.
C14_Witness ==
  /\ Transferred("local")
  /\ ret.arg.segment_address >= ret.arg.hw.limit
  /\ ret.arg.size = 2 ^ WordBits - ret.arg.segment_address
  /\ ret.status = "SUCCESS"
  /\ \E x \in BytesMoved : x >= ret.arg.hw.limit


(***************************************************************************)
(* Registers.                                                              *)
(***************************************************************************)
\* architecture ().register_size (regnum), in bytes, and the values of a byte.
RegisterSize == 2
ByteValues == {0, 1}
ByteBase == 2
ByteIndexes == 0 .. (RegisterSize - 1)

\* The registers: hwregs (pc), ttmps, sgprs and vgprs of both lane widths;
\* s9, v9_32 and v9_64 are not allocated to the wave.
RegNums == {"pc", "ttmp4", "s0", "s9", "v0_32", "v0_64", "v9_32", "v9_64"}
Sgprs == {"s0", "s9"}
Vgprs == {"v0_32", "v0_64", "v9_32", "v9_64"}
WaveLaneCounts == {32, 64}

\* The little-endian bytes of an address and back.
ToBytes(v) == [i \in ByteIndexes |-> (v \div (ByteBase ^ i)) % ByteBase]

RECURSIVE FromBytesUpTo(_, _)
FromBytesUpTo(b, i) ==
  IF i < 0 THEN 0 ELSE b[i] * (ByteBase ^ i) + FromBytesUpTo(b, i - 1)

FromBytes(b) == FromBytesUpTo(b, RegisterSize - 1)

\* memcpy (dst + offset, src + offset, value_size)
copy_bytes(dst, src, offset, value_size) ==
  [i \in DOMAIN dst |->
     IF i >= offset /\ i < offset + value_size THEN src[i] ELSE dst[i]]

\* The bytes [offset, offset + value_size) of a buffer.
bytes_at(src, offset, value_size) ==
  [i \in offset .. (offset + value_size - 1) |-> src[i]]

\* m_cwsr_record->register_address (regnum) has a value.
register_address(wr, regnum) ==
  \/ regnum \in {"pc", "ttmp4", "s0"}
  \/ regnum = (IF wr.lane_count = 32 THEN "v0_32" ELSE "v0_64")


\* The check of offset and size made first by read_register and
\* write_register.
valid_access(offset, value_size) ==
  ~(value_size = 0 \/ Wrap(offset + value_size) > RegisterSize)

\* Variant: an unallocated vgpr is always read from v0_64.
aliased_register_v0_64(wr, regnum) ==
  IF register_address(wr, regnum) THEN regnum
  ELSE IF regnum \in Sgprs THEN "s0"
  ELSE "v0_64"

\* The register whose address read_register uses.
aliased_register(wr, regnum) ==
  IF register_address(wr, regnum) THEN regnum
  ELSE IF regnum \in Sgprs THEN "s0"
  ELSE IF regnum \in Vgprs
  THEN (IF wr.lane_count = 32 THEN "v0_32" ELSE "v0_64")
  ELSE regnum

\* Variant: the ttmps are open to everybody.
ttmp_hidden_never(wr, regnum) == FALSE

\* A ttmp of a wave whose context save record is not privileged.
ttmp_hidden(wr, regnum) == regnum \in Ttmps /\ ~wr.is_priv

\* The bytes the register cache or the global memory holds for a register.
stored_bytes(wr, regnum) ==
  IF regnum = "pc" THEN ToBytes(wr.pc)
  ELSE IF cache_contains(regnum) THEN wr.cache[regnum]
  ELSE wr.memory[regnum]

\* wave_t::read_register: the status and the bytes put into the client's
\* buffer.
read_register(wr, regnum, offset, value_size) ==
  IF ~valid_access(offset, value_size)
  THEN [status |-> "INVALID_ARGUMENT_COMPATIBILITY", value |-> <<>>]
  ELSE IF ttmp_hidden(wr, regnum)
  THEN [status |-> "SUCCESS",
        value |-> [i \in offset .. (offset + value_size - 1) |-> 0]]
  ELSE IF wr.is_parked /\ regnum = "pc"
  THEN [status |-> "SUCCESS",
        value |-> bytes_at(ToBytes(wr.parked_pc), offset, value_size)]
  ELSE [status |-> "SUCCESS",
        value |-> bytes_at(stored_bytes(wr, aliased_register(wr, regnum)),
                           offset, value_size)]

\* Variant: a write to the cache replaces the whole register.
write_stored_whole(wr, regnum, offset, value_size, value) ==
  LET bytes == [i \in ByteIndexes |->
                  IF i >= offset /\ i < offset + value_size THEN value[i]
                  ELSE 0]
  IN IF regnum = "pc"
     THEN [wr EXCEPT !.pc = FromBytes(bytes), !.dirty = TRUE,
                     !.registered = TRUE]
     ELSE IF cache_contains(regnum)
     THEN [wr EXCEPT !.cache[regnum] = bytes, !.dirty = TRUE,
                     !.registered = TRUE]
     ELSE [wr EXCEPT !.memory[regnum] = bytes]

\* m_register_cache.write followed by register_dirty_cache, or
\* write_global_memory.
write_stored(wr, regnum, offset, value_size, value) ==
  LET bytes == copy_bytes(stored_bytes(wr, regnum), value, offset, value_size)
  IN IF regnum = "pc"
     THEN register_cache_write([wr EXCEPT !.pc = FromBytes(bytes)])
     ELSE IF cache_contains(regnum)
     THEN register_cache_write([wr EXCEPT !.cache[regnum] = bytes])
     ELSE [wr EXCEPT !.memory[regnum] = bytes]

\* wave_t::write_register: the status and the wave afterwards.
write_register(wr, regnum, offset, value_size, value) ==
  IF ~valid_access(offset, value_size)
  THEN [status |-> "INVALID_ARGUMENT_COMPATIBILITY", wave |-> wr]
  ELSE IF ~register_address(wr, regnum) /\ regnum \in Sgprs \cup Vgprs
  THEN [status |-> "SUCCESS", wave |-> wr]
  ELSE IF ttmp_hidden(wr, regnum)
  THEN [status |-> "SUCCESS", wave |-> wr]
  ELSE IF wr.is_parked /\ regnum = "pc"
  THEN [status |-> "SUCCESS",
        wave |-> [wr EXCEPT !.parked_pc =
                    FromBytes(copy_bytes(ToBytes(wr.parked_pc), value,
                                         offset, value_size))]]
  ELSE [status |-> "SUCCESS",
        wave |-> write_stored(wr, regnum, offset, value_size, value)]

\* The offsets and sizes a client passes, and its buffers.
AccessOffsets == 0 .. RegisterSize
AccessSizes == 0 .. RegisterSize
Buffers == [ByteIndexes -> ByteValues]

\* amd_dbgapi_read_register on a stopped wave.
amd_dbgapi_read_register(w, regnum, offset, value_size) ==
  /\ ret = NoCall
  /\ waves[w].alive
  /\ waves[w].state = "STOP"
  /\ LET r == read_register(waves[w], regnum, offset, value_size)
     IN ret' = Result("read_register", w,
                      [regnum |-> regnum, offset |-> offset,
                       value_size |-> value_size],
                      r.status, FALSE, r.value, {})
  /\ UNCHANGED <<waves, events, buffers, queue_suspended,
                 forward_progress_needed, park_stopped_waves, agent_exceptions,
                 assert_failed>>

\* amd_dbgapi_write_register on a stopped wave; the bytes of the buffer
\* outside [offset, offset + value_size) are not looked at.
amd_dbgapi_write_register(w, regnum, offset, value_size, value) ==
  /\ ret = NoCall
  /\ waves[w].alive
  /\ waves[w].state = "STOP"
  /\ \A i \in ByteIndexes :
       (i < offset \/ i >= offset + value_size) => value[i] = 0
  /\ LET r == write_register(waves[w], regnum, offset, value_size, value)
     IN /\ waves' = [waves EXCEPT ![w] = r.wave]
        /\ ret' = Result("write_register", w,
                         [regnum |-> regnum, offset |-> offset,
                          value_size |-> value_size, value |-> value],
                         r.status, FALSE, "none", {})
  /\ UNCHANGED <<events, buffers, queue_suspended, forward_progress_needed,
                 park_stopped_waves, agent_exceptions, assert_failed>>

\* A stopped wave, parked or not, with its registers: the pc in the
\* register cache (or in parked_pc), a ttmp in the cache, s0 and v0 in the
\* context save area.
RegisterWave(lane_count, is_priv, parked) ==
  [alive |-> TRUE, state |-> "STOP", visibility |-> "visible",
   stop_reason |-> StopReasonNone, stop_requested |-> FALSE,
   is_parked |-> parked, parked_pc |-> IF parked THEN 1 ELSE 0,
   last_stopped_pc |-> 0, last_stop_event_id |-> NoEvent,
   displaced_stepping |-> NoBuffer, pc |-> IF parked THEN ParkAddr ELSE 1,
   stop_event |-> NoEvent, terminated |-> FALSE,
   lane_count |-> lane_count, is_priv |-> is_priv,
   cache |-> [r \in Ttmps |-> [i \in ByteIndexes |-> 1]],
   memory |-> [r \in {"s0", "v0_32", "v0_64"} |->
                 IF r = "s0" THEN [i \in ByteIndexes |-> 1]
                 ELSE IF r = "v0_32" THEN [i \in ByteIndexes |-> i % 2]
                 ELSE [i \in ByteIndexes |-> (i + 1) % 2]],
   dirty |-> FALSE, registered |-> FALSE]

InitRegisters ==
  /\ \E lane_count \in WaveLaneCounts, is_priv \in BOOLEAN, parked \in BOOLEAN :
       /\ waves = [w \in Waves |->
                     IF w = 1 THEN RegisterWave(lane_count, is_priv, parked)
                     ELSE ExitedWave]
       /\ park_stopped_waves = parked
  /\ events = <<>>
  /\ buffers = [b \in BufferIds |-> FreeBuffer]
  /\ queue_suspended = TRUE
  /\ forward_progress_needed = FALSE
  /\ agent_exceptions = {}
  /\ assert_failed = {}
  /\ ret = NoCall

NextRegisters ==
  \/ \E w \in {1}, regnum \in RegNums, offset \in AccessOffsets,
        value_size \in AccessSizes :
       amd_dbgapi_read_register(w, regnum, offset, value_size)
  \/ \E w \in {1}, regnum \in RegNums, offset \in AccessOffsets,
        value_size \in AccessSizes, value \in Buffers :
       amd_dbgapi_write_register(w, regnum, offset, value_size, value)
  \/ call_returns

SpecRegisters == InitRegisters /\ [][NextRegisters]_vars


\* The register is allocated to the wave (wave_t::is_register_available).
Available(wr, regnum) == register_address(wr, regnum)

\* The offset and size lie inside the register.
InsideRegister(offset, value_size) ==
  value_size > 0 /\ offset + value_size <= RegisterSize

\* Everything of the wave but the dirty bit of its register cache and the
\* cache's registration with the queue.
RegisterContent(wr) ==
  [wr EXCEPT !.dirty = FALSE, !.registered = FALSE]

\* The last call was op on regnum of wave w.
RegisterCall(r, op, w) == r.op = op /\ r.wave = w

\* C15: for every available register r and every offset and size inside r,
\* writing back the bytes that a read of r returns succeeds, the next read
\* returns the same bytes, and no register changes (neither what a read of
\* any register returns nor the content of the cache, the memory, the pc and
\* the parked pc): for the cached pc, the parked pc, the uncached sgprs and
\* vgprs, and the ttmps, privileged or not.
C15_RegisterRoundTrip ==
  [][\A w \in {1} :
       RegisterCall(ret', "write_register", w) =>
         LET regnum == ret'.arg.regnum
             offset == ret'.arg.offset
             value_size == ret'.arg.value_size
             value == ret'.arg.value
         IN ( /\ Available(waves[w], regnum)
              /\ InsideRegister(offset, value_size)
              /\ read_register(waves[w], regnum, offset, value_size)
                   = [status |-> "SUCCESS",
                      value |-> bytes_at(value, offset, value_size)] ) =>
            ( /\ ret'.status = "SUCCESS"
              /\ read_register(waves'[w], regnum, offset, value_size)
                   = [status |-> "SUCCESS",
                      value |-> bytes_at(value, offset, value_size)]
              /\ \A r \in RegNums, o \in AccessOffsets, s \in AccessSizes :
                   read_register(waves'[w], r, o, s)
                     = read_register(waves[w], r, o, s)
              /\ RegisterContent(waves'[w]) = RegisterContent(waves[w]) )]_vars

\* The bytes of a privileged ttmp, changed before, have been written back
\* through the register cache.
C15_Witness ==
  /\ ret.op = "write_register"
  /\ ret.arg.regnum = "ttmp4"
  /\ ret.arg.offset = 0
  /\ ret.arg.value_size = RegisterSize
  /\ ret.status = "SUCCESS"
  /\ waves[1].is_priv
  /\ waves[1].is_parked
  /\ waves[1].dirty
  /\ waves[1].cache["ttmp4"] = ret.arg.value
  /\ ret.arg.value = [i \in ByteIndexes |-> i % 2]
  /\ waves[1].parked_pc = 2
  /\ waves[1].memory["s0"] = [i \in ByteIndexes |-> 0]

\* C16: with a context save record that is not privileged, a read of a ttmp
\* (with an offset and a size inside the register) returns zero bytes, and
\* a write of a ttmp changes nothing: not the cache, not the memory, not the
\* dirty bit, not the registration of the cache with the queue.
C16_TtmpNotPrivileged ==
  [][\A w \in {1} :
       /\ ( /\ RegisterCall(ret', "read_register", w)
            /\ ret'.arg.regnum \in Ttmps
            /\ ~waves[w].is_priv
            /\ InsideRegister(ret'.arg.offset, ret'.arg.value_size) ) =>
          ( /\ ret'.status = "SUCCESS"
            /\ ret'.value
                 = [i \in ret'.arg.offset ..
                           (ret'.arg.offset + ret'.arg.value_size - 1) |-> 0]
            /\ waves' = waves )
       /\ ( /\ RegisterCall(ret', "write_register", w)
            /\ ret'.arg.regnum \in Ttmps
            /\ ~waves[w].is_priv ) =>
          ( /\ waves' = waves
            /\ ret'.status
                 = IF InsideRegister(ret'.arg.offset, ret'.arg.value_size)
                   THEN "SUCCESS"
                   ELSE "INVALID_ARGUMENT_COMPATIBILITY" )]_vars

\* A write of ones to the ttmp of a wave that is not privileged has
\* returned: the cache holds what it held and is clean.
C16_Witness ==
  /\ ret.op = "write_register"
  /\ ret.arg.regnum = "ttmp4"
  /\ ret.arg.offset = 0
  /\ ret.arg.value_size = RegisterSize
  /\ ret.arg.value = [i \in ByteIndexes |-> 0]
  /\ ret.status = "SUCCESS"
  /\ ~waves[1].is_priv
  /\ waves[1].cache["ttmp4"] = [i \in ByteIndexes |-> 1]
  /\ ~waves[1].dirty
  /\ ~waves[1].registered

\* C17: for an sgpr or vgpr that is not allocated to the wave, a read
\* returns the bytes of s0, respectively of v0_32 when lane_count is 32 and
\* of v0_64 otherwise, and a write is dropped; a size of 0 or an offset and
\* size beyond the register return INVALID_ARGUMENT_COMPATIBILITY for both.
C17_OutOfRangeRegisters ==
  [][\A w \in {1} :
       /\ ( /\ RegisterCall(ret', "read_register", w)
            /\ ret'.arg.regnum \in Sgprs \cup Vgprs
            /\ ~Available(waves[w], ret'.arg.regnum) ) =>
          IF InsideRegister(ret'.arg.offset, ret'.arg.value_size)
          THEN /\ ret'.status = "SUCCESS"
               /\ ret'.value
                    = bytes_at(waves[w].memory[
                                 IF ret'.arg.regnum \in Sgprs THEN "s0"
                                 ELSE IF waves[w].lane_count = 32 THEN "v0_32"
                                 ELSE "v0_64"],
                               ret'.arg.offset, ret'.arg.value_size)
          ELSE ret'.status = "INVALID_ARGUMENT_COMPATIBILITY"
       /\ ( /\ RegisterCall(ret', "write_register", w)
            /\ ret'.arg.regnum \in Sgprs \cup Vgprs
            /\ ~Available(waves[w], ret'.arg.regnum) ) =>
          ( /\ waves' = waves
            /\ ret'.status
                 = IF InsideRegister(ret'.arg.offset, ret'.arg.value_size)
                   THEN "SUCCESS"
                   ELSE "INVALID_ARGUMENT_COMPATIBILITY" )]_vars

\* A wave of 32 lanes: the read of a vgpr it does not have has returned the
\* bytes of v0_32, which differ from those of v0_64.
C17_Witness ==
  /\ ret.op = "read_register"
  /\ ret.arg.regnum = "v9_64"
  /\ ret.arg.offset = 0
  /\ ret.arg.value_size = RegisterSize
  /\ ret.status = "SUCCESS"
  /\ waves[1].lane_count = 32
  /\ ret.value = waves[1].memory["v0_32"]
  /\ waves[1].memory["v0_32"] # waves[1].memory["v0_64"]
  /\ waves[1].memory["v0_32"] # waves[1].memory["s0"]


(***************************************************************************)
(* The order of the events of two waves.                                   *)
(***************************************************************************)
\* Two waves run on the queue.
InitOrder ==
  /\ waves = [w \in Waves |-> NewWave]
  /\ events = <<>>
  /\ buffers = [b \in BufferIds |-> FreeBuffer]
  /\ queue_suspended = FALSE
  /\ forward_progress_needed = TRUE
  /\ park_stopped_waves = FALSE
  /\ agent_exceptions = {}
  /\ assert_failed = {}
  /\ ret = NoCall

\* The calls of a client that stops the two waves, resumes the first and
\* takes their events.
NextOrder ==
  \/ \E w \in Waves : amd_dbgapi_wave_stop(w)
  \/ \E w \in {1}, resume_mode \in {"NORMAL", "SINGLE_STEP"} :
       amd_dbgapi_wave_resume(w, resume_mode, ExceptionNone)
  \/ amd_dbgapi_process_next_pending_event
  \/ \E id \in 1 .. MaxEvents : amd_dbgapi_event_processed(id)
  \/ call_returns

SpecOrder == InitOrder /\ [][NextOrder]_vars


\* The events of wave w among the events raised by the step.
RaisedFor(w) ==
  {i \in (Len(events) + 1) .. Len(events') : events'[i].wave = w}

\* C18: the event queue keeps the order in which the events were raised:
\* a step only appends events, behind those raised before; among the
\* events one call raises, those of the waves found stopped when the queue
\* was suspended come in the order in which the waves are updated, and
\* the event raised by set_state for the wave of the call comes last.
\* Whenever a WAVE_STOP or WAVE_COMMAND_TERMINATED event is raised for a
\* wave, last_stop_event_id of the wave is the id of the last event raised
\* for it, and it changes at no other time.
C18_EventOrder ==
  [][/\ Len(events') >= Len(events)
     /\ \A i \in 1 .. Len(events) :
          /\ events'[i].kind = events[i].kind
          /\ events'[i].wave = events[i].wave
     /\ \A i \in (Len(events) + 1) .. Len(events') :
          /\ events'[i].kind \in {"WAVE_STOP", "WAVE_COMMAND_TERMINATED"}
          /\ events'[i].state = "queued"
          /\ \A j \in (i + 1) .. Len(events') :
               \/ events'[i].wave < events'[j].wave
               \/ /\ events'[j].wave = ret'.wave
                  /\ j = Len(events')
     /\ \A w \in Waves :
          IF RaisedFor(w) # {}
          THEN /\ waves'[w].alive
               /\ waves'[w].last_stop_event_id \in RaisedFor(w)
               /\ \A i \in RaisedFor(w) : i <= waves'[w].last_stop_event_id
          ELSE waves[w].alive /\ waves'[w].alive =>
                 waves'[w].last_stop_event_id = waves[w].last_stop_event_id
    ]_vars

\* A stop of wave 1 has found wave 2 halted at a breakpoint when it
\* suspended the queue: the event of wave 2 precedes the event of the stop,
\* and each wave knows its own.
C18_Witness ==
  /\ ret.op = "stop"
  /\ ret.wave = 1
  /\ ret.status = "SUCCESS"
  /\ Len(events) = 2
  /\ events[1] = [kind |-> "WAVE_STOP", wave |-> 2, state |-> "queued"]
  /\ events[2] = [kind |-> "WAVE_STOP", wave |-> 1, state |-> "queued"]
  /\ waves[2].last_stop_event_id = 1
  /\ waves[1].last_stop_event_id = 2

(***************************************************************************)
(* The queue suspension of stop, resume and the wave list.                 *)
(***************************************************************************)
\* set_state goes as far as architecture.wave_set_state: the state differs
\* from the one the wave has, and the wave is not terminated instead.
set_state_reaches_hardware(s, w, state, exceptions) ==
  LET ds == s.waves[w].displaced_stepping
      instruction ==
        IF state = "SINGLE_STEP" THEN instruction_at_pc(s, w)
        ELSE NoInstruction
      terminating ==
        IF ds # NoBuffer
        THEN is_terminating_instruction(s.buffers[ds].original)
        ELSE /\ instruction # NoInstruction
             /\ is_terminating_instruction(instruction)
  IN /\ state # s.waves[w].state
     /\ ~(state = "SINGLE_STEP" /\ exceptions = ExceptionNone /\ terminating)

\* wave_t::set_state when architecture.wave_set_state raises an error: the
\* request is recorded in m_stop_requested, m_state is not written.
set_state_raises(s, w, state) ==
  [s EXCEPT !.waves[w].stop_requested = (state = "STOP")]

\* amd_dbgapi_wave_stop on the path where set_state raises an error, which
\* CATCH turns into the returned status after the scope has been left.
amd_dbgapi_wave_stop_error(w) ==
  /\ ret = NoCall
  /\ wave_stop_check(w) = "SUCCESS"
  /\ UNCHANGED <<forward_progress_needed, park_stopped_waves>>
  /\ queue_suspended' = scoped_queue_release(queue_suspended)
  /\ \E outcomes \in OutcomeChoices(World) :
       LET s1 == scoped_queue_suspend(World, outcomes, park_stopped_waves)
       IN /\ s1.waves[w].alive
          /\ set_state_reaches_hardware(s1, w, "STOP", ExceptionNone)
          /\ Commit(queue_left(set_state_raises(s1, w, "STOP"),
                               scoped_queue_release(queue_suspended)),
                    Result("stop", w, "none", "FATAL", TRUE, "none", {}))

\* amd_dbgapi_wave_resume on the path where set_state raises an error.
amd_dbgapi_wave_resume_error(w, resume_mode, exceptions) ==
  /\ ret = NoCall
  /\ wave_resume_check(w, resume_mode, exceptions) = "SUCCESS"
  /\ UNCHANGED <<forward_progress_needed, park_stopped_waves>>
  /\ queue_suspended' = scoped_queue_release(queue_suspended)
  /\ \E outcomes \in OutcomeChoices(World) :
       LET s1 == scoped_queue_suspend(World, outcomes, park_stopped_waves)
           state == resume_state(resume_mode)
       IN /\ s1.waves[w].alive
          /\ set_state_reaches_hardware(s1, w, state, exceptions)
          /\ Commit(queue_left(set_state_raises(s1, w, state),
                               scoped_queue_release(queue_suspended)),
                    Result("resume", w, resume_mode, "FATAL", TRUE, "none",
                           {}))

NextSuspend ==
  \/ \E w \in {1} : amd_dbgapi_wave_stop(w)
  \/ \E w \in {1} : amd_dbgapi_wave_stop_error(w)
  \/ \E w \in {1}, resume_mode \in {"NORMAL", "SINGLE_STEP"} :
       amd_dbgapi_wave_resume(w, resume_mode, ExceptionNone)
  \/ \E w \in {1}, resume_mode \in {"NORMAL", "SINGLE_STEP"} :
       amd_dbgapi_wave_resume_error(w, resume_mode, ExceptionNone)
  \/ amd_dbgapi_process_wave_list
  \/ \E needed \in BOOLEAN : amd_dbgapi_process_set_progress(needed)
  \/ amd_dbgapi_process_next_pending_event
  \/ \E id \in 1 .. MaxEvents : amd_dbgapi_event_processed(id)
  \/ call_returns

SpecSuspend == Init /\ [][NextSuspend]_vars

\* A stop or a resume of wave w returns in this step.
StopOrResumeReturns(w) ==
  /\ ret = NoCall
  /\ ret'.op \in {"stop", "resume"}
  /\ ret'.wave = w

\* C19: stop and resume touch the wave only under the queue suspension they
\* take: a call that returns before the suspension changes neither the
\* waves, the events nor the queue; a call that took it returns SUCCESS,
\* INVALID_WAVE_ID (the wave was there at the call and is found gone, which
\* only the call's own suspension of a running queue can find out) or the
\* error raised in set_state, and on each of the three ways out the queue is
\* as it was before the call: running again when the call suspended it,
\* still suspended when it was suspended before.
C19_SuspensionReleased ==
  [][\A w \in {1} :
       StopOrResumeReturns(w)
       => /\ ~ret'.suspend
             => /\ UNCHANGED <<waves, events, buffers, queue_suspended>>
                /\ ret'.status \notin {"SUCCESS", "FATAL"}
          /\ ret'.suspend
             => /\ waves[w].alive
                /\ ret'.status \in {"SUCCESS", "INVALID_WAVE_ID", "FATAL"}
                /\ (ret'.status = "INVALID_WAVE_ID")
                     = ~waves'[w].alive
                /\ ret'.status = "INVALID_WAVE_ID" => ~queue_suspended
                /\ queue_suspended' = queue_suspended
                /\ ~queue_suspended
                   => \E outcomes \in OutcomeChoices(World) :
                        LET s1 == update_waves(World, Waves, outcomes,
                                               park_stopped_waves)
                        IN \/ /\ ret'.status = "INVALID_WAVE_ID"
                              /\ waves' = s1.waves
                              /\ events' = s1.events
                           \/ /\ ret'.status = "FATAL"
                              /\ waves' = [s1.waves EXCEPT
                                   ![w].stop_requested = (ret'.op = "stop")]
                              /\ events' = s1.events
                           \/ /\ ret'.status = "SUCCESS"
                              /\ s1.waves[w].alive]_vars

\* A stop has raised an error in set_state after suspending a running queue
\* whose process needs forward progress: the request is recorded, the wave
\* is not stopped, and the queue runs.
C19_Witness ==
  /\ ret.op = "stop"
  /\ ret.status = "FATAL"
  /\ ret.suspend
  /\ forward_progress_needed
  /\ ~queue_suspended
  /\ waves[1].alive
  /\ waves[1].stop_requested
  /\ waves[1].state # "STOP"

\* The wave list returns in this step.
WaveListReturns ==
  /\ ret = NoCall
  /\ ret'.op = "list_waves"

\* C20: the wave list suspends the queue exactly when it is not suspended
\* (the waves are refreshed then, and only then), and resumes it only when
\* the call suspended it and the process needs forward progress: a queue
\* suspended before the call is suspended after it, a queue the call
\* suspended runs after the call when forward progress is needed and stays
\* suspended when it is not, whatever status the enumeration handed back.
C20_WaveListSuspension ==
  [][WaveListReturns
     => /\ queue_suspended => queue_suspended'
        /\ queue_suspended => UNCHANGED <<waves, events, buffers>>
        /\ ret'.status = "FATAL"
           => UNCHANGED <<waves, events, buffers, queue_suspended>>
        /\ (~queue_suspended /\ ret'.status # "FATAL")
           => /\ queue_suspended' = ~forward_progress_needed
              /\ \E outcomes \in OutcomeChoices(World) :
                   LET s1 == update_waves(World, Waves, outcomes,
                                          park_stopped_waves)
                   IN waves' = s1.waves /\ events' = s1.events
        /\ ret'.status \in WaveListStatuses \cup {"FATAL"}]_vars

\* The enumeration has failed in a process that needs forward progress, and
\* the queue runs after the call.
C20_Witness ==
  /\ ret.op = "list_waves"
  /\ ret.status = "CLIENT_CALLBACK"
  /\ forward_progress_needed
  /\ ~queue_suspended

(***************************************************************************)
(* Invariants of the wave state.                                           *)
(***************************************************************************)
\* The conditions park () and unpark () assert.
ParkAsserts ==
  {"park_stopped", "park_not_parked", "unpark_not_stopped", "unpark_parked"}

\* C21: between calls, a parked wave is in STOP on an architecture that
\* parks stopped waves, on such an architecture every wave in STOP is
\* parked, and no call has run park () on a parked wave or on a wave that is
\* not stopped, nor unpark () on a wave that is not parked or is stopped.
C21_ParkedIffStopped ==
  /\ \A w \in Waves :
       waves[w].alive
       => /\ waves[w].is_parked
             => waves[w].state = "STOP" /\ park_stopped_waves
          /\ (park_stopped_waves /\ waves[w].state = "STOP")
             => waves[w].is_parked
  /\ assert_failed \cap ParkAsserts = {}

\* A single-step has been simulated on an architecture that parks stopped
\* waves: the wave was unparked for the step and is parked again.
C21_Witness ==
  /\ park_stopped_waves
  /\ ret.op = "resume"
  /\ ret.arg = "SINGLE_STEP"
  /\ ret.status = "SUCCESS"
  /\ waves[1].alive
  /\ waves[1].state = "STOP"
  /\ waves[1].is_parked
  /\ waves[1].stop_reason = {"SINGLE_STEP"}

\* C22: between calls a wave with a stop reason is in STOP; a step in which
\* a wave leaves STOP and lives on clears its stop reason; and a step in
\* which set_state (STOP) records a stop request leaves the wave in STOP
\* with no stop reason.
C22_StopReasonOnlyInStop ==
  /\ [](\A w \in Waves :
          (waves[w].alive /\ waves[w].stop_reason # StopReasonNone)
          => waves[w].state = "STOP")
  /\ [][\A w \in Waves :
          /\ ( /\ waves[w].alive
               /\ waves'[w].alive
               /\ waves[w].state = "STOP"
               /\ waves'[w].state # "STOP" )
             => waves'[w].stop_reason = StopReasonNone
          /\ ( /\ waves'[w].alive
               /\ ~waves[w].stop_requested
               /\ waves'[w].stop_requested )
             => /\ ret'.op = "stop"
                /\ waves'[w].state = "STOP"
                /\ waves'[w].stop_reason = StopReasonNone]_vars

\* A wave found halted at a breakpoint, whose event the client has
\* processed, has been resumed: it runs with no stop reason.
C22_Witness ==
  /\ ret.op = "resume"
  /\ ret.arg = "NORMAL"
  /\ ret.status = "SUCCESS"
  /\ waves[1].alive
  /\ waves[1].state = "RUN"
  /\ waves[1].stop_reason = StopReasonNone
  /\ Len(events) = 1
  /\ events[1].wave = 1
  /\ events[1].kind = "WAVE_STOP"
  /\ events[1].state = "processed"
  /\ waves[1].last_stopped_pc = 2

\* C23: in every state a wave that holds a displaced stepping buffer is in
\* STOP or SINGLE_STEP, the buffer it holds exists, and set_state has never
\* been asked to put such a wave into RUN.
C23_DisplacedSteppingNotRun ==
  /\ \A w \in Waves :
       (waves[w].alive /\ waves[w].displaced_stepping # NoBuffer)
       => /\ waves[w].state \in {"STOP", "SINGLE_STEP"}
          /\ buffers[waves[w].displaced_stepping].refcount > 0
  /\ "displaced_stepping_not_run" \notin assert_failed

\* A wave that holds a displaced stepping buffer has been resumed for the
\* single step and is stepping.
C23_Witness ==
  /\ ret.op = "resume"
  /\ ret.arg = "SINGLE_STEP"
  /\ ret.status = "SUCCESS"
  /\ waves[1].alive
  /\ waves[1].displaced_stepping # NoBuffer
  /\ waves[1].state = "SINGLE_STEP"

\* The wave is hidden at the terminating instruction.
Hidden(w) ==
  /\ waves[w].alive
  /\ waves[w].visibility = "hidden_at_terminating_instruction"

CacheWave ==
  [RegisterWave(64, TRUE, FALSE) EXCEPT !.state = "RUN"] @@ [lost |-> FALSE]

InitCache ==
  /\ waves = [w \in Waves |-> IF w = 1 THEN CacheWave ELSE ExitedWave]
  /\ InitProcess

\* The bytes a client writes into a register.
ZeroBytes == [i \in ByteIndexes |-> 0]

NextCache ==
  \/ \E w \in {1} : amd_dbgapi_wave_stop(w)
  \/ \E w \in {1}, resume_mode \in {"NORMAL", "SINGLE_STEP"} :
       amd_dbgapi_wave_resume(w, resume_mode, ExceptionNone)
  \/ \E w \in {1}, regnum \in {"ttmp4", "s0"} :
       amd_dbgapi_write_register(w, regnum, 0, RegisterSize, ZeroBytes)
  \/ amd_dbgapi_process_wave_list
  \/ \E needed \in BOOLEAN : amd_dbgapi_process_set_progress(needed)
  \/ amd_dbgapi_process_next_pending_event
  \/ \E id \in 1 .. MaxEvents : amd_dbgapi_event_processed(id)
  \/ call_returns

SpecCache == InitCache /\ [][NextCache]_vars

\* C25: while its queue is not suspended a wave that is not in STOP has a
\* clean register cache; a dirty cache is always registered with the queue,
\* and a write of a cached register leaves the cache dirty and registered in
\* the step of the call; no update has reset a cache that was dirty.
C25_DirtyCacheFlushed ==
  /\ [](\A w \in Waves :
          (waves[w].alive /\ has_register_cache(waves[w]))
          => /\ (~queue_suspended /\ waves[w].state # "STOP")
                => ~waves[w].dirty
             /\ waves[w].dirty => waves[w].registered
             /\ ~waves[w].lost)
  /\ [][\A w \in {1} :
          ( /\ RegisterCall(ret', "write_register", w)
            /\ ret'.status = "SUCCESS"
            /\ cache_contains(ret'.arg.regnum) )
          => /\ waves'[w].dirty
             /\ waves'[w].registered
             /\ waves'[w].cache[ret'.arg.regnum] = ret'.arg.value]_vars

\* The client has written a cached register of a stopped wave and has
\* resumed the wave: the wave runs, the queue
\* runs, and the cache with the client's bytes is clean.
C25_Witness ==
  /\ ret.op = "resume"
  /\ ret.status = "SUCCESS"
  /\ ~queue_suspended
  /\ waves[1].alive
  /\ waves[1].state = "RUN"
  /\ waves[1].visibility = "visible"
  /\ waves[1].cache["ttmp4"] = ZeroBytes
  /\ ~waves[1].dirty
  /\ ~waves[1].registered

(***************************************************************************)
(* wave_t::update on its own.                                              *)
(***************************************************************************)
\* The group ids and positions the hardware puts into the ttmps.
GroupValues == {1, 2}

\* A wave as an update may find it: state, visibility and stop reason as
\* they were left, parked when in STOP on a parking architecture, a cache
\* that can be dirty only in STOP, and, when the wave has been updated
\* before, the group ids and the position read at its first update.
UpdateWave(state, visibility, reason, parks, dirty, updated, ttmps_setup) ==
  [RegisterWave(64, TRUE, state = "STOP" /\ parks) EXCEPT
     !.state = state, !.visibility = visibility, !.stop_reason = reason,
     !.dirty = dirty, !.registered = dirty,
     !.pc = IF visibility = "visible" \/ (state = "STOP" /\ parks) THEN @
            ELSE TerminateAddr,
     !.parked_pc = IF visibility # "visible" /\ state = "STOP" /\ parks
                   THEN TerminateAddr ELSE @]
    @@ [lost |-> FALSE, cwsr_record |-> updated,
        group_ids |-> IF updated /\ ttmps_setup THEN 1 ELSE 0,
        wave_in_group |-> IF updated /\ ttmps_setup THEN 1 ELSE 0,
        ttmps_setup |-> ttmps_setup]

\* The waves an update may find: a wave just created, and the waves updated
\* before, visible in any state or hidden.
UpdateWaves(parks) ==
  {UpdateWave("RUN", "visible", StopReasonNone, parks, FALSE, FALSE, t) :
     t \in BOOLEAN}
  \cup {UpdateWave(st, "visible", StopReasonNone, parks, FALSE, TRUE, t) :
          st \in {"RUN", "SINGLE_STEP"}, t \in BOOLEAN}
  \cup {UpdateWave("STOP", "visible", r, parks, d, TRUE, t) :
          r \in {StopReasonNone, {"BREAKPOINT"}}, d \in BOOLEAN,
          t \in BOOLEAN}
  \cup {UpdateWave(st, "hidden_at_terminating_instruction", StopReasonNone,
                   parks, FALSE, TRUE, t) :
          st \in {"RUN", "STOP"}, t \in BOOLEAN}

\* What the context save record holds at an update: what
\* architecture.wave_get_state reports, the saved pc, and the ttmps.
UpdateOutcomes ==
  {[kind |-> k, reason |-> r, pc |-> a, group_ids |-> g, wave_in_group |-> p] :
     k \in {"stay", "stop"},
     r \in {StopReasonNone, {"BREAKPOINT"}, {"SINGLE_STEP"}},
     a \in {2, 3}, g \in GroupValues, p \in GroupValues}

InitUpdate ==
  /\ park_stopped_waves \in BOOLEAN
  /\ \E wr \in UpdateWaves(park_stopped_waves) :
       waves = [w \in Waves |-> IF w = 1 THEN wr ELSE ExitedWave]
  /\ events = <<>>
  /\ buffers = [b \in BufferIds |-> FreeBuffer]
  /\ queue_suspended = TRUE
  /\ forward_progress_needed = FALSE
  /\ agent_exceptions = {}
  /\ assert_failed = {}
  /\ ret = NoCall

\* One call of wave_t::update, made for the wave when its queue has been
\* suspended.
wave_update(w) ==
  /\ ret = NoCall
  /\ waves[w].alive
  /\ queue_suspended
  /\ UNCHANGED <<queue_suspended, forward_progress_needed, park_stopped_waves>>
  /\ \E outcome \in UpdateOutcomes :
       /\ outcome.kind = "stay"
          => outcome.reason = StopReasonNone /\ outcome.pc = 2
       /\ Commit(update(World, w, outcome, park_stopped_waves),
                 Result("update", w, outcome, "SUCCESS", FALSE, "none", {}))

NextUpdate ==
  \/ \E w \in {1} : wave_update(w)
  \/ call_returns

SpecUpdate == InitUpdate /\ [][NextUpdate]_vars

\* An update of wave w returns in this step.
UpdateReturns(w) ==
  /\ ret = NoCall
  /\ ret'.op = "update"
  /\ ret'.wave = w

\* The wave went from a state other than STOP to STOP in this step.
StoppedInStep(w) == waves[w].state # "STOP" /\ waves'[w].state = "STOP"

\* C26: an update raises an event for the wave exactly when in this update
\* the wave went from a state other than STOP to STOP, is visible and has a
\* stop reason; the event is a single queued WAVE_STOP, which becomes the
\* wave's last stop event; on a parking architecture the wave that went to
\* STOP is parked at the pc it was saved with, event or not, and no other
\* update changes the parking.
C26_UpdateRaisesStop ==
  [][\A w \in {1} :
       UpdateReturns(w)
       => /\ StoppedInStep(w)
               = (waves[w].state # "STOP" /\ ret'.arg.kind = "stop")
          /\ (RaisedFor(w) # {})
               = ( /\ StoppedInStep(w)
                   /\ waves'[w].visibility = "visible"
                   /\ waves'[w].stop_reason # StopReasonNone )
          /\ events' \in {events,
                          Append(events, [kind |-> "WAVE_STOP", wave |-> w,
                                          state |-> "queued"])}
          /\ waves'[w].last_stop_event_id
               = IF RaisedFor(w) # {} THEN Len(events')
                 ELSE waves[w].last_stop_event_id
          /\ StoppedInStep(w)
             => /\ waves'[w].is_parked = park_stopped_waves
                /\ read_register_pc(waves'[w]) = ret'.arg.pc
                /\ waves'[w].pc
                     = IF park_stopped_waves THEN ParkAddr ELSE ret'.arg.pc
          /\ ~StoppedInStep(w)
             => /\ waves'[w].is_parked = waves[w].is_parked
                /\ waves'[w].parked_pc = waves[w].parked_pc
                /\ waves'[w].pc = waves[w].pc]_vars

\* An update has found a hidden wave halted with a stop reason on a parking
\* architecture: the wave is in STOP and parked, and no event was raised.
C26_Witness ==
  /\ ret.op = "update"
  /\ ret.arg.kind = "stop"
  /\ ret.arg.reason = {"BREAKPOINT"}
  /\ park_stopped_waves
  /\ waves[1].visibility = "hidden_at_terminating_instruction"
  /\ waves[1].state = "STOP"
  /\ waves[1].stop_reason = {"BREAKPOINT"}
  /\ waves[1].is_parked
  /\ waves[1].parked_pc = 3
  /\ events = <<>>


\* C27: an update of a wave that was in STOP at the update before changes
\* nothing of the wave (state, stop reason, stop request, parking, last stop
\* event, the cached registers and the dirty bit), whatever the context save
\* record would report, and raises no event; the group ids and the position
\* in the group are set by the first update, from the ttmps, and no later
\* update changes them.
C27_StoppedWaveUntouched ==
  [][\A w \in {1} :
       UpdateReturns(w)
       => /\ waves[w].state = "STOP"
             => /\ waves'[w] = waves[w]
                /\ UNCHANGED <<events, buffers, agent_exceptions,
                               assert_failed>>
          /\ waves[w].cwsr_record
             => /\ waves'[w].group_ids = waves[w].group_ids
                /\ waves'[w].wave_in_group = waves[w].wave_in_group
          /\ ~waves[w].cwsr_record
             => /\ waves'[w].cwsr_record
                /\ waves'[w].group_ids
                     = IF waves[w].ttmps_setup THEN ret'.arg.group_ids ELSE 0
                /\ waves'[w].wave_in_group
                     = IF waves[w].ttmps_setup THEN ret'.arg.wave_in_group
                       ELSE 0]_vars

\* An update has been made for a wave stopped at a breakpoint with a dirty
\* cache while its context save record reports a single-step stop and other
\* group ids: the wave is as it was.
C27_Witness ==
  /\ ret.op = "update"
  /\ ret.arg.kind = "stop"
  /\ ret.arg.reason = {"SINGLE_STEP"}
  /\ ret.arg.group_ids = 2
  /\ waves[1].state = "STOP"
  /\ waves[1].stop_reason = {"BREAKPOINT"}
  /\ waves[1].dirty
  /\ waves[1].cwsr_record
  /\ waves[1].group_ids = 1
  /\ events = <<>>

(***************************************************************************)
(* Steps of wave_t::set_state.                                             *)
(***************************************************************************)
\* set_state (STOP) has made the transition in this step: the stop request
\* of wave w is recorded.
StopTransition(w) ==
  /\ ret = NoCall
  /\ ret'.op = "stop"
  /\ ret'.wave = w
  /\ waves'[w].alive
  /\ ~waves[w].stop_requested
  /\ waves'[w].stop_requested

\* C28: a stop that is accepted for a wave in RUN or SINGLE_STEP on a queue
\* that is already suspended makes set_state (STOP) enter STOP; every
\* transition into STOP that set_state makes on request, under any
\* suspension, raises exactly one event for the wave,
\* WAVE_COMMAND_TERMINATED when the wave was in SINGLE_STEP and WAVE_STOP
\* when it was in RUN, which becomes the last stop event of the wave; the
\* wave is then in STOP with no stop reason and its stop request recorded.
C28_StopRaisesOneEvent ==
  [][\A w \in {1} :
       /\ ( /\ ret = NoCall
            /\ ret'.op = "stop"
            /\ ret'.wave = w
            /\ ret'.status = "SUCCESS"
            /\ waves[w].state # "STOP"
            /\ queue_suspended )
          => StopTransition(w)
       /\ StopTransition(w)
          => /\ ret'.status = "SUCCESS"
             /\ waves[w].state # "STOP"
             /\ events'
                  = Append(events,
                           [kind |-> IF waves[w].state = "SINGLE_STEP"
                                     THEN "WAVE_COMMAND_TERMINATED"
                                     ELSE "WAVE_STOP",
                            wave |-> w, state |-> "queued"])
             /\ waves'[w].last_stop_event_id = Len(events')
             /\ waves'[w].state = "STOP"
             /\ waves'[w].stop_reason = StopReasonNone
             /\ waves'[w].stop_requested]_vars

\* A stop has been requested for a wave that was single-stepping and has
\* not been terminated: the step is reported as terminated by the command.
C28_Witness ==
  /\ ret.op = "stop"
  /\ ret.status = "SUCCESS"
  /\ waves[1].alive
  /\ waves[1].visibility = "visible"
  /\ waves[1].state = "STOP"
  /\ waves[1].stop_requested
  /\ waves[1].stop_reason = StopReasonNone
  /\ waves[1].last_stop_event_id = Len(events)
  /\ Len(events) = 2
  /\ events[2] = [kind |-> "WAVE_COMMAND_TERMINATED", wave |-> 1,
                  state |-> "queued"]


(***************************************************************************)
(* Single-stepping an instruction the architecture simulates.              *)
(***************************************************************************)
\* The instructions a client may have saved under a breakpoint, with the
\* one that is terminating and simulated at once.
StepInstructionKinds == InstructionKinds \cup {"branch_endpgm"}

NextStep ==
  \/ \E w \in {1} : amd_dbgapi_wave_stop(w)
  \/ \E w \in {1}, resume_mode \in ResumeModes, exceptions \in ExceptionArgs :
       amd_dbgapi_wave_resume(w, resume_mode, exceptions)
  \/ \E w \in {1}, saved \in StepInstructionKinds :
       amd_dbgapi_displaced_stepping_start(w, saved)
  \/ \E w \in {1} : amd_dbgapi_displaced_stepping_complete(w)
  \/ amd_dbgapi_process_next_pending_event
  \/ \E id \in 1 .. MaxEvents : amd_dbgapi_event_processed(id)
  \/ call_returns

SpecStep == Init /\ [][NextStep]_vars

\* The instruction a single-step of the wave would execute is one the
\* simulation block of set_state hands to architecture.simulate: the
\* displaced original of a simulated buffer, or else the instruction at pc.
SingleStepSimulable(w) ==
  IF waves[w].displaced_stepping # NoBuffer
  THEN buffers[waves[w].displaced_stepping].is_simulated
  ELSE can_simulate(instruction_at_pc(World, w))

\* This step is a successful resume (w, SINGLE_STEP, NONE).
SingleStepResumes(w) ==
  /\ ret = NoCall
  /\ ret'.op = "resume"
  /\ ret'.wave = w
  /\ ret'.arg = "SINGLE_STEP"
  /\ ret'.status = "SUCCESS"
  /\ ret'.sent = {}

\* C29: a successful resume (w, SINGLE_STEP, NONE) of an instruction that is
\* not terminating and that the architecture simulates either leaves the
\* wave in SINGLE_STEP with no event (simulate returned false) or, within
\* the same call, leaves it stopped with the single-step stop reason, parked
\* exactly when the architecture parks stopped waves, and with exactly one
\* new event, a WAVE_STOP that is the last stop event of the wave, after the
\* transition out of STOP has recorded the pc the wave stopped at and
\* cleared the stop request; an instruction that is not simulated leaves
\* the wave in SINGLE_STEP with no event; a terminating instruction, also
\* one that could be simulated, is terminated and adds exactly one event,
\* the WAVE_COMMAND_TERMINATED, so that no call raises both events.
C29_SimulatedStep ==
  [][\A w \in {1} :
       SingleStepResumes(w)
       => /\ SingleStepTerminates(w)
             => /\ TerminateRan(w)
                /\ waves'[w].state = "RUN"
                /\ events'
                     = Append(events,
                              [kind |-> "WAVE_COMMAND_TERMINATED",
                               wave |-> w, state |-> "queued"])
          /\ (~SingleStepTerminates(w) /\ ~SingleStepSimulable(w))
             => /\ waves'[w].state = "SINGLE_STEP"
                /\ events' = events
          /\ (~SingleStepTerminates(w) /\ SingleStepSimulable(w))
             => \/ /\ waves'[w].state = "SINGLE_STEP"
                   /\ waves'[w].stop_reason = StopReasonNone
                   /\ ~waves'[w].is_parked
                   /\ events' = events
                \/ /\ waves'[w].state = "STOP"
                   /\ waves'[w].stop_reason = {"SINGLE_STEP"}
                   /\ waves'[w].is_parked = park_stopped_waves
                   /\ events'
                        = Append(events,
                                 [kind |-> "WAVE_STOP", wave |-> w,
                                  state |-> "queued"])
                   /\ waves'[w].last_stop_event_id = Len(events')
                   /\ waves'[w].last_stopped_pc = read_register_pc(waves[w])
                   /\ ~waves'[w].stop_requested]_vars

\* C29 witness: on an architecture that parks stopped waves, a single-step
\* resume has returned with the wave stopped by the simulated step, parked,
\* and the WAVE_STOP it raised is the newest event.
C29_Witness ==
  /\ park_stopped_waves
  /\ ret.op = "resume"
  /\ ret.arg = "SINGLE_STEP"
  /\ ret.status = "SUCCESS"
  /\ waves[1].state = "STOP"
  /\ waves[1].stop_reason = {"SINGLE_STEP"}
  /\ waves[1].is_parked
  /\ waves[1].last_stop_event_id = Len(events)
  /\ Len(events) >= 2
  /\ events[Len(events)] = [kind |-> "WAVE_STOP", wave |-> 1,
                            state |-> "queued"]


(***************************************************************************)
(* wave_t::set_state on its own.                                           *)
(***************************************************************************)
\* The exceptions a caller may pass: the recognized ones.
SetStateExceptions == {e \in ExceptionArgs : e \subseteq RecognizedExceptions}

\* One call of wave_t::set_state (state, exceptions) by a caller that keeps
\* to the function's opening assertion.  The call leaves behind its
\* arguments, the state it found the wave in and the mask it sent.
wave_set_state_called(w, state, exceptions) ==
  /\ ret = NoCall
  /\ waves[w].alive
  /\ exceptions = ExceptionNone \/ state # "STOP"
  /\ UNCHANGED <<queue_suspended, forward_progress_needed, park_stopped_waves>>
  /\ \E sim \in SimulateChoices(state, exceptions) :
       LET s1 == set_state(World, w, state, exceptions, park_stopped_waves,
                           sim)
       IN Commit(s1,
                 Result("set_state", w,
                        [state |-> state, exceptions |-> exceptions,
                         prev_state |-> waves[w].state],
                        "SUCCESS", FALSE, "none", s1.sent))

NextSetState ==
  \/ \E w \in {1}, state \in WaveStates, exceptions \in SetStateExceptions :
       wave_set_state_called(w, state, exceptions)
  \/ amd_dbgapi_process_next_pending_event
  \/ \E id \in 1 .. MaxEvents : amd_dbgapi_event_processed(id)
  \/ call_returns

SpecSetState == Init /\ [][NextSetState]_vars

\* A call of set_state for wave w returns in this step.
SetStateReturns(w) ==
  /\ ret = NoCall
  /\ ret'.op = "set_state"
  /\ ret'.wave = w

\* The call changed nothing and sent nothing.
SetStateWithoutEffect ==
  /\ UNCHANGED <<waves, events, buffers, agent_exceptions>>
  /\ ret'.sent = {}

C31_DisplacedPcRestored ==
  [][\A w \in {1} :
       /\ ( /\ ret = NoCall
            /\ ret'.op = "displaced_stepping_start"
            /\ ret'.wave = w
            /\ ret'.status = "SUCCESS" )
          => LET ds == waves'[w].displaced_stepping
             IN /\ ds # NoBuffer
                /\ buffers'[ds].refcount > 0
                /\ buffers'[ds].from = read_register_pc(waves[w])
                /\ read_register_pc(waves'[w])
                     = IF buffers'[ds].is_simulated
                       THEN read_register_pc(waves[w])
                       ELSE BufferAddr(ds)
       /\ \A b \in BufferIds :
            (buffers[b].refcount > 0 /\ buffers'[b].refcount > 0)
            => /\ buffers'[b].from = buffers[b].from
               /\ buffers'[b].is_simulated = buffers[b].is_simulated
       /\ ( /\ ret = NoCall
            /\ ret'.op = "displaced_stepping_complete"
            /\ ret'.wave = w )
          => LET ds == waves[w].displaced_stepping
                 d == read_register_pc(waves[w]) - BufferAddr(ds)
             IN /\ ds # NoBuffer
                /\ read_register_pc(waves'[w])
                     = IF buffers[ds].is_simulated
                       THEN read_register_pc(waves[w])
                       ELSE buffers[ds].from + d
                /\ waves'[w].displaced_stepping = NoBuffer
                /\ buffers' = release(World, ds).buffers]_vars

\* C31 witness: displaced_stepping_complete has returned for a wave that
\* was resumed at the instruction of a buffer, stopped after the single
\* step, and whose pc is back in the kernel's code.
C31_Witness ==
  /\ ret.op = "displaced_stepping_complete"
  /\ ret.status = "SUCCESS"
  /\ waves[1].displaced_stepping = NoBuffer
  /\ waves[1].state = "STOP"
  /\ waves[1].stop_reason = {"SINGLE_STEP"}
  /\ waves[1].last_stopped_pc \in {BufferAddr(b) : b \in BufferIds}
  /\ read_register_pc(waves[1]) = 1 + InstructionSize


\* This step is a displaced_stepping_start of wave w that found no buffer to
\* share for the pc and could read the instruction's bytes, so that the
\* instruction was reconstituted from the bytes the client saved (ret'.arg).
StartReconstitutes(w) ==
  /\ ret = NoCall
  /\ ret'.op = "displaced_stepping_start"
  /\ ret'.wave = w
  /\ find_displaced_stepping(World, wave_queue(waves[w]),
                             read_register_pc(waves[w])) = {}
  /\ CodeAt(read_register_pc(waves[w])) # NoInstruction

\* C32: a displaced_stepping_start whose reconstituted instruction can be
\* neither simulated nor executed displaced fails with ILLEGAL_INSTRUCTION
\* and changes nothing: no buffer is created or retained, the memory holds
\* no new instruction copy, the pc is as it was and the wave has no
\* displaced stepping; when the instruction can be simulated, also when it
\* could be executed displaced as well, the call succeeds with a simulated
\* buffer, no instruction copy in memory and the pc as it was.
C32_IllegalInstructionStart ==
  [][\A w \in {1} :
       StartReconstitutes(w)
       => /\ (~can_simulate(ret'.arg) /\ ~can_execute_displaced(ret'.arg))
             => /\ ret'.status = "ILLEGAL_INSTRUCTION"
                /\ UNCHANGED <<waves, buffers, events>>
                /\ waves'[w].displaced_stepping = NoBuffer
          /\ can_simulate(ret'.arg)
             => /\ ret'.status = "SUCCESS"
                /\ waves'[w].displaced_stepping # NoBuffer
                /\ buffers'[waves'[w].displaced_stepping].is_simulated
                /\ buffers'[waves'[w].displaced_stepping].refcount = 1
                /\ read_register_pc(waves'[w]) = read_register_pc(waves[w])
                /\ waves'[w].pc = waves[w].pc
                /\ \A a \in Addrs :
                     MemoryAt([buffers |-> buffers'], a) = MemoryAt(World, a)
          /\ ret'.status = "ILLEGAL_INSTRUCTION"
             => (~can_simulate(ret'.arg) /\ ~can_execute_displaced(ret'.arg))]_vars

\* C32 witness: a displaced_stepping_start was refused with
\* ILLEGAL_INSTRUCTION and the stopped wave has no displaced stepping and
\* no buffer is in use.
C32_Witness ==
  /\ ret.op = "displaced_stepping_start"
  /\ ret.arg = "illegal"
  /\ ret.status = "ILLEGAL_INSTRUCTION"
  /\ waves[1].state = "STOP"
  /\ waves[1].displaced_stepping = NoBuffer
  /\ \A b \in BufferIds : buffers[b].refcount = 0


(***************************************************************************)
(* The exceptions a resume sends and the agent's memory violation.         *)
(***************************************************************************)
\* os_queue_exception_mask: the queue bits of os_exception_mask_t.
QueueExceptionBits ==
  {"queue_wave_abort", "queue_wave_trap", "queue_wave_math_error",
   "queue_wave_illegal_instruction", "queue_wave_memory_violation",
   "queue_wave_aperture_violation"}

\* The mask a set of recognized exceptions stands for: the queue bit of each
\* and, with a memory violation, the device memory violation of the agent
\* when the agent has it.
ExpectedOsMask(exceptions) ==
  {"queue_wave_abort" : e \in exceptions \cap {"ABORT"}}
    \cup {"queue_wave_trap" : e \in exceptions \cap {"TRAP"}}
    \cup {"queue_wave_math_error" : e \in exceptions \cap {"MATH_ERROR"}}
    \cup {"queue_wave_illegal_instruction" :
            e \in exceptions \cap {"ILLEGAL_INSTRUCTION"}}
    \cup {"queue_wave_memory_violation" :
            e \in exceptions \cap {"MEMORY_VIOLATION"}}
    \cup {"queue_wave_aperture_violation" :
            e \in exceptions \cap {"APERTURE_VIOLATION"}}
    \cup {"device_memory_violation" :
            e \in (exceptions \cap {"MEMORY_VIOLATION"})
                    \cap {x \in exceptions :
                            "device_memory_violation" \in agent_exceptions}}

\* C33: a resume that succeeds with a non-empty set of recognized exceptions
\* calls send_exceptions exactly once, with the union of the masks of all
\* its bits (the memory violation carrying the agent's device memory
\* violation as the agent had it when the call was made), a mask that holds
\* a queue exception bit, and the wave has left STOP; with no exceptions the
\* call is not made; set_state never meets a bit it cannot convert.
C33_ExceptionsSentOnce ==
  /\ []("valid_exception" \notin assert_failed)
  /\ [][\A w \in {1}, exceptions \in ExceptionArgs :
          ( /\ ret = NoCall
            /\ ret'.op = "resume"
            /\ ret'.wave = w
            /\ ret'.status = "SUCCESS"
            /\ amd_dbgapi_wave_resume(w, ret'.arg, exceptions) )
          => /\ exceptions \subseteq RecognizedExceptions
             /\ ret'.sent = IF exceptions = ExceptionNone THEN {}
                            ELSE {<<1, ExpectedOsMask(exceptions)>>}
             /\ exceptions # ExceptionNone
                => /\ ExpectedOsMask(exceptions) \cap QueueExceptionBits # {}
                   /\ waves'[w].state = resume_state(ret'.arg)]_vars

\* C33 witness: a resume has sent, in one call, the mask of two exceptions,
\* with the device memory violation the agent had.
C33_Witness ==
  /\ ret.op = "resume"
  /\ ret.status = "SUCCESS"
  /\ ret.sent = {<<1, {"queue_wave_abort", "queue_wave_memory_violation",
                       "device_memory_violation"}>>}
  /\ waves[1].state # "STOP"


\* The calls of a client that stops and resumes two waves of one agent and
\* takes their events, while the driver may report a device memory
\* violation for the agent.
NextViolation ==
  \/ \E w \in Waves : amd_dbgapi_wave_stop(w)
  \/ \E w \in Waves, resume_mode \in {"NORMAL", "SINGLE_STEP"} :
       amd_dbgapi_wave_resume(w, resume_mode, ExceptionNone)
  \/ amd_dbgapi_process_next_pending_event
  \/ \E id \in 1 .. MaxEvents : amd_dbgapi_event_processed(id)
  \/ agent_memory_violation
  \/ call_returns

SpecViolation == InitOrder /\ [][NextViolation]_vars

\* Some wave of the agent is in STOP with the memory violation stop reason.
StoppedWithMemoryViolation(ws) ==
  \E x \in Waves :
    /\ ws[x].alive
    /\ ws[x].state = "STOP"
    /\ "MEMORY_VIOLATION" \in ws[x].stop_reason

\* C34: the agent's device memory violation is only cleared by a resume
\* that succeeds on a wave that was in STOP (set_state takes it out of STOP,
\* even if a simulated step then halts it again), and only when no wave of
\* the agent is then in STOP with the memory violation stop reason; while
\* some wave is, a resume of another wave leaves the bit as it is; a resume
\* that succeeds when no wave is stopped with a memory violation any more
\* clears the bit.
C34_MemoryViolationCleared ==
  [][/\ ( /\ "device_memory_violation" \in agent_exceptions
          /\ "device_memory_violation" \notin agent_exceptions' )
        => /\ ret = NoCall
           /\ ret'.op = "resume"
           /\ ret'.status = "SUCCESS"
           /\ waves[ret'.wave].state = "STOP"
           /\ waves'[ret'.wave].stop_reason \subseteq {"SINGLE_STEP"}
           /\ ~StoppedWithMemoryViolation(waves')
     /\ ( /\ "device_memory_violation" \in agent_exceptions
          /\ StoppedWithMemoryViolation(waves') )
        => "device_memory_violation" \in agent_exceptions'
     /\ ( /\ "device_memory_violation" \in agent_exceptions
          /\ ret = NoCall
          /\ ret'.op = "resume"
          /\ ret'.status = "SUCCESS"
          /\ ~StoppedWithMemoryViolation(waves') )
        => "device_memory_violation" \notin agent_exceptions']_vars

\* C34 witness: wave 1 has been resumed while wave 2 is stopped with a
\* memory violation, and the agent still has its device memory violation.
C34_Witness ==
  /\ ret.op = "resume"
  /\ ret.wave = 1
  /\ ret.status = "SUCCESS"
  /\ waves[1].state = "RUN"
  /\ waves[2].alive
  /\ waves[2].state = "STOP"
  /\ "MEMORY_VIOLATION" \in waves[2].stop_reason
  /\ "device_memory_violation" \in agent_exceptions

(***************************************************************************)
(* The queue is suspended whenever the context save area is touched.       *)
(***************************************************************************)
\* The dbgapi_assert (queue ().is_suspended ()) of wave_t::update, of
\* wave_t::read_register and of wave_t::write_register.
SuspensionAssertions ==
  {"update_queue_suspended", "read_register_queue_suspended",
   "write_register_queue_suspended"}

StopEventUnreported(evs, wr) ==
  /\ wr.alive
  /\ wr.state = "STOP"
  /\ has_last_stop_event(evs, wr)
  /\ EventRank(evs[wr.last_stop_event_id].state) < EventRank("reported")

\* C36: a wave that amd_dbgapi_wave_stop has put into STOP, and whose stop
\* event has not been reported, is seen by the client in the state it was
\* resumed into last, the state it had when the stop was asked for: RUN, or
\* SINGLE_STEP for a wave that was single-stepping.
C36_AsStated ==
  [][\A w \in {1} :
       ( /\ ret = NoCall
         /\ ret'.op = "stop"
         /\ ret'.wave = w
         /\ ret'.status = "SUCCESS"
         /\ waves[w].state # "STOP"
         /\ waves'[w].stop_requested
         /\ StopEventUnreported(events', waves'[w]) )
       => client_visible_state(events', waves'[w]) = waves[w].state]_vars

\* A single-stepping wave has been stopped by amd_dbgapi_wave_stop: its stop
\* reason is NONE, its event, WAVE_COMMAND_TERMINATED, has not been
\* reported, and the client sees the wave in RUN.
C36_Witness ==
  /\ StopEventUnreported(events, waves[1])
  /\ waves[1].stop_requested
  /\ waves[1].stop_reason = StopReasonNone
  /\ events[waves[1].last_stop_event_id].kind = "WAVE_COMMAND_TERMINATED"
  /\ client_visible_state(events, waves[1]) = "RUN"

(***************************************************************************)
(* Stopping a wave twice.                                                  *)
(***************************************************************************)
\* One running wave that keeps the history of its stops.
InitStops ==
  /\ waves = [w \in Waves |-> IF w = 1 THEN NewWave @@ [stops |-> "none"]
                              ELSE ExitedWave]
  /\ InitProcess

NextStops ==
  \/ \E w \in {1} : amd_dbgapi_wave_stop(w)
  \/ \E w \in {1}, resume_mode \in ResumeModes :
       amd_dbgapi_wave_resume(w, resume_mode, ExceptionNone)
  \/ \E w \in {1}, query \in {"STATE", "PC"} :
       amd_dbgapi_wave_get_info(w, query)
  \/ amd_dbgapi_process_wave_list
  \/ amd_dbgapi_process_next_pending_event
  \/ \E id \in 1 .. MaxEvents : amd_dbgapi_event_processed(id)
  \/ call_returns

SpecStops == InitStops /\ [][NextStops]_vars

\* C37: once amd_dbgapi_wave_stop has returned SUCCESS for a wave, every
\* further amd_dbgapi_wave_stop for the wave made before the wave is resumed
\* returns WAVE_OUTSTANDING_STOP or WAVE_STOPPED, and never SUCCESS.
C37_AsStated ==
  [][\A w \in {1} :
       ( /\ ret = NoCall
         /\ ret'.op = "stop"
         /\ ret'.wave = w
         /\ waves[w].alive
         /\ waves[w].stops # "none" )
       => ret'.status \in {"WAVE_OUTSTANDING_STOP", "WAVE_STOPPED"}]_vars

\* amd_dbgapi_wave_stop has returned SUCCESS a second time for a wave that
\* has not been resumed in between: no stop is outstanding, and the stop
\* event raised when the queue's refresh found the wave halted has not been
\* reported.
C37_Witness ==
  /\ waves[1].alive
  /\ waves[1].stops = "again"
  /\ ret.op = "stop"
  /\ ret.status = "SUCCESS"
  /\ ~waves[1].stop_requested
  /\ StopEventUnreported(events, waves[1])

(***************************************************************************)
(* The events one call raises.                                             *)
(***************************************************************************)
\* C38: a call of amd_dbgapi_wave_stop or amd_dbgapi_wave_resume adds at
\* most one event, an event of the wave, and leaves the events there were
\* alone, whichever way set_state goes: the plain transition, the
\* single-step of a terminating instruction with the set_state (RUN) that
\* terminate makes, or the simulated single-step.  A resume adds an event
\* only when it single-steps, with no exception, an instruction that is
\* terminating or that the architecture simulates.
C38_OneEventPerCall ==
  [][\A w \in {1} :
       ( /\ ret = NoCall
         /\ ret'.op \in {"stop", "resume"}
         /\ ret'.wave = w )
       => /\ Len(events') \in {Len(events), Len(events) + 1}
          /\ SubSeq(events', 1, Len(events)) = events
          /\ Len(events') > Len(events)
             => /\ events'[Len(events')].wave = w
                /\ events'[Len(events')].state = "queued"
          /\ (ret'.op = "resume" /\ Len(events') > Len(events))
             => /\ SingleStepResumes(w)
                /\ SingleStepTerminates(w) \/ SingleStepSimulable(w)
                /\ events'[Len(events')].kind
                     = (IF SingleStepTerminates(w)
                        THEN "WAVE_COMMAND_TERMINATED" ELSE "WAVE_STOP")]_vars

\* A single-step of a terminating instruction has returned: the wave is
\* terminated and hidden, and the one WAVE_COMMAND_TERMINATED there is
\* is the newest event.
C38_Witness ==
  /\ ret.op = "resume"
  /\ ret.arg = "SINGLE_STEP"
  /\ ret.status = "SUCCESS"
  /\ waves[1].terminated
  /\ waves[1].state = "RUN"
  /\ Len(events) >= 2
  /\ events[Len(events)].kind = "WAVE_COMMAND_TERMINATED"
  /\ Cardinality({i \in DOMAIN events :
                    events[i].kind = "WAVE_COMMAND_TERMINATED"}) = 1

Queues == {"queue_1", "queue_2"}

\* Two waves, of one queue or of two, that the first suspension of their
\* queues found halted, each at a pc of its own choice.
InitQueues ==
  /\ InitProcess
  /\ \E q \in Queues, a \in [Waves -> CodeAddrs] :
       LET found == [w \in Waves |->
                       [kind |-> "stop", reason |-> StopReasonNone,
                        pc |-> a[w]]]
           s == [waves |-> [w \in Waves |->
                              NewWave @@ [queue |-> IF w = 1 THEN "queue_1"
                                                    ELSE q]],
                 events |-> <<>>,
                 buffers |-> [b \in BufferIds |-> FreeBuffer],
                 agent_exceptions |-> {}, assert_failed |-> {}, sent |-> {},
                 suspended |-> TRUE]
       IN waves = update_waves(s, Waves, found, park_stopped_waves).waves

NextQueues ==
  \/ \E w \in Waves, saved \in InstructionKinds :
       amd_dbgapi_displaced_stepping_start(w, saved)
  \/ \E w \in Waves : amd_dbgapi_displaced_stepping_complete(w)
  \/ call_returns

SpecQueues == InitQueues /\ [][NextQueues]_vars

\* The buffers that exist.
LiveBuffers == {b \in BufferIds : buffers[b].refcount > 0}

\* C40: no two displaced stepping buffers that exist have the same queue
\* and the same from.  The buffer of a wave is a buffer of the wave's queue,
\* made for the pc the wave had when it started: displaced_stepping_start
\* creates a buffer exactly when the wave's queue has none for that pc, and
\* otherwise retains the one there is, so that waves of different queues, or
\* at different pcs, never share a buffer.
C40_OneBufferPerQueueAndPc ==
  /\ [](/\ \A b, c \in LiveBuffers :
             (buffers[b].queue = buffers[c].queue
              /\ buffers[b].from = buffers[c].from) => b = c
        /\ \A w \in Waves :
             (waves[w].alive /\ waves[w].displaced_stepping # NoBuffer)
             => /\ waves[w].displaced_stepping \in LiveBuffers
                /\ buffers[waves[w].displaced_stepping].queue
                     = wave_queue(waves[w]))
  /\ [][\A w \in Waves :
          ( /\ ret = NoCall
            /\ ret'.op = "displaced_stepping_start"
            /\ ret'.wave = w
            /\ ret'.status = "SUCCESS" )
          => LET ds == waves'[w].displaced_stepping
                 there == find_displaced_stepping(World, wave_queue(waves[w]),
                                                  read_register_pc(waves[w]))
             IN /\ ds # NoBuffer
                /\ buffers'[ds].queue = wave_queue(waves[w])
                /\ buffers'[ds].from = read_register_pc(waves[w])
                /\ there = {}
                   => /\ ds \notin LiveBuffers
                      /\ buffers'[ds].refcount = 1
                /\ there # {}
                   => /\ ds \in there
                      /\ buffers' = [buffers EXCEPT ![ds].refcount = @ + 1]
                /\ \A b \in BufferIds \ {ds} : buffers'[b] = buffers[b]]_vars

\* Two waves of different queues have started displaced stepping at the
\* same pc, and each has a buffer of its own.
C40_Witness ==
  /\ waves[1].displaced_stepping # NoBuffer
  /\ waves[2].displaced_stepping # NoBuffer
  /\ waves[1].displaced_stepping # waves[2].displaced_stepping
  /\ wave_queue(waves[1]) # wave_queue(waves[2])
  /\ buffers[waves[1].displaced_stepping].from
       = buffers[waves[2].displaced_stepping].from

====
